---- MODULE Spec2Model ----
(***************************************************************************)
(* Self-healing orchestrator (src/backend/ml/self_healing_orchestrator.py) *)
(* as a state machine: the Q-learning agent, the strategy catalog with its *)
(* success counters, and handle_failure with the calls it makes.           *)
(*                                                                         *)
(* Floats are held in fixed point.  A severity is a number of hundredths   *)
(* (SevUnit), a reward or Q-value a number of 1/3000 (Scale: every term of *)
(* calculate_reward is then a whole number), a duration a number of tenths *)
(* of a second, a probability or exploration rate a number of thousandths  *)
(* (EpsUnit).  The two products of the TD update are rounded toward zero   *)
(* at that grain; the code rounds them at the grain of a double.           *)
(***************************************************************************)
EXTENDS Integers, Sequences, FiniteSets, TLC

\* ------------------------------------------------------------------ bounds

\* handle_failure calls of one behaviour, per specification
MaxCalls == 2
MaxCallsRepeat == 10
MaxCallsEps0 == 4
MaxCallsQ == 6
MaxCallsRates == 3
MaxCallsAtomic == 3
MaxThreads == 2
MaxCallsIds == 2
MaxClock == 30
MaxExperiences == 3
MaxRecords == 6
MaxDecayRecords == 2
MaxLoopCalls == 2
MaxLearnRecords == 11
\* the longest side_effects list drawn for calculate_reward
MaxSideEffects == 30

\* ------------------------------------------------------------ fixed point

SevUnit == 100
Scale == 3000
EpsUnit == 1000
DurUnit == 10
ConfUnit == 1000

\* ------------------------------------------------------- program constants

SeverityLevels == 5
ColdStartFailures == 10
HistoryMaxLen == 1000
\* config['learning']: pattern_window and min_pattern_frequency; the mean
\* interval of a recurring failure is under 3600 seconds
PatternWindow == 100
MinPatternFrequency == 3
RecurringInterval == 3600
LearningHistoryMaxLen == 10000
KnowledgeWindow == 20
PatternTop == 5
RecommendationsTop == 10
MetaMinAttempts == 5
SuccessRateThreshold == 6
ConfidenceThreshold == 7
PatternDecayNum == 1
PatternDecayDen == 10
LearningRateNum == 1
LearningRateDen == 10
DiscountNum == 9
DiscountDen == 10
Epsilon0 == 200
MinEpsilon == 10
EpsilonDecayNum == 995
EpsilonDecayDen == 1000
EpsilonFloor == 10
\* load_state: deque(v, maxlen=100); load_learning_state: deque(v, maxlen=1000)
SampleMaxLen == 100
\* _update_strategies: attempts >= 5, best_actions[:3], response_times.get(action, [60])
StrategyMinAttempts == 5
StrategyTop == 3
DefaultResponseTime == 60
\* the background loops, in seconds: time.sleep(60), time.sleep(1),
\* join(timeout=5), retraining_interval, adaptation_intervals['medium']
LoopSleep == 60
ExecutionSleep == 1
JoinTimeout == 5
RetrainingInterval == 3600
AdaptationInterval == 1800
MetricsMaxLen == 1000
\* save_learning_state keeps adaptation_events[-100:]
AdaptationEventsSaved == 100
\* adapt_system_based_on_learning: confidence_scores[-100:], avg < 0.5,
\* attempts > 10, success_rate < 0.4
RecentConfidence == 100
LowConfidenceNum == 1
LowConfidenceDen == 2
AdaptationMinAttempts == 10
LowSuccessNum == 4
LowSuccessDen == 10
RewardClip == 2

\* ------------------------------------------------------------------ enums

FailureType ==
    << "CPU_OVERLOAD", "MEMORY_LEAK", "DISK_FULL", "NETWORK_TIMEOUT",
       "SERVICE_CRASH", "DATABASE_ERROR", "API_RATE_LIMIT", "UNKNOWN" >>

HealingAction ==
    << "RESTART_SERVICE", "SCALE_UP", "SCALE_DOWN", "CLEAR_CACHE",
       "RESTART_COMPONENT", "FAILOVER", "THROTTLE_REQUESTS",
       "ALLOCATE_RESOURCES", "NO_ACTION" >>

FailureTypes == { FailureType[i] : i \in DOMAIN FailureType }
HealingActions == { HealingAction[i] : i \in DOMAIN HealingAction }

\* list(Enum).index(x): zero-based position
IndexOf(seq, x) == (CHOOSE i \in DOMAIN seq : seq[i] = x) - 1

n_states == Len(FailureType) * SeverityLevels
n_actions == Len(HealingAction)

\* config['healing_strategies'] of _default_config: no entry for UNKNOWN
DefaultStrategies ==
    [ ft \in FailureTypes \ {"UNKNOWN"} |->
        CASE ft = "CPU_OVERLOAD" -> << "SCALE_UP", "THROTTLE_REQUESTS", "RESTART_SERVICE" >>
          [] ft = "MEMORY_LEAK" -> << "RESTART_SERVICE", "CLEAR_CACHE", "SCALE_UP" >>
          [] ft = "DISK_FULL" -> << "CLEAR_CACHE", "ALLOCATE_RESOURCES", "SCALE_UP" >>
          [] ft = "NETWORK_TIMEOUT" -> << "RESTART_COMPONENT", "FAILOVER", "THROTTLE_REQUESTS" >>
          [] ft = "SERVICE_CRASH" -> << "RESTART_SERVICE", "FAILOVER", "SCALE_UP" >>
          [] ft = "DATABASE_ERROR" -> << "RESTART_COMPONENT", "FAILOVER", "CLEAR_CACHE" >>
          [] ft = "API_RATE_LIMIT" -> << "THROTTLE_REQUESTS", "SCALE_UP", "NO_ACTION" >> ]

\* duration_estimates of generate_healing_response, in seconds
DurationEstimates ==
    [ a \in HealingActions |->
        CASE a = "RESTART_SERVICE" -> 30
          [] a = "SCALE_UP" -> 120
          [] a = "SCALE_DOWN" -> 60
          [] a = "CLEAR_CACHE" -> 10
          [] a = "RESTART_COMPONENT" -> 45
          [] a = "FAILOVER" -> 180
          [] a = "THROTTLE_REQUESTS" -> 5
          [] a = "ALLOCATE_RESOURCES" -> 90
          [] a = "NO_ACTION" -> 1 ]

\* ---------------------------------------------------------------- helpers

Min(a, b) == IF a <= b THEN a ELSE b
Max(a, b) == IF a >= b THEN a ELSE b

\* Python's int(x) of the quotient a/b, b > 0: rounds toward zero
TruncDiv(a, b) == IF a >= 0 THEN a \div b ELSE -((-a) \div b)

SeqToSet(s) == { s[i] : i \in DOMAIN s }

\* fractions, for the rates and means the code keeps as floats
Frac(n, d) == [num |-> n, den |-> d]
FracGE(x, y) == x.num * y.den >= y.num * x.den
FracGT(x, y) == x.num * y.den > y.num * x.den
FracTimes(x, y) == [num |-> x.num * y.num, den |-> x.den * y.den]

RECURSIVE SumSeq(_)
SumSeq(q) == IF q = << >> THEN 0 ELSE Head(q) + SumSeq(Tail(q))

LastN(q, n) == IF Len(q) <= n THEN q ELSE SubSeq(q, Len(q) - n + 1, Len(q))

\* deque(maxlen=n).append(x): the oldest element is dropped when full
DequeAppend(d, x, n) == IF Len(d) >= n THEN Append(Tail(d), x) ELSE Append(d, x)

RECURSIVE SumValues(_)
SumValues(f) ==
    IF DOMAIN f = {} THEN 0
    ELSE LET k == CHOOSE k \in DOMAIN f : TRUE
         IN f[k] + SumValues([j \in DOMAIN f \ {k} |-> f[j]])

\* ------------------------------------------------------------------ state

VARIABLES
    q_table,                \* rl_agent.q_table: n_states x n_actions, in 1/Scale
    state_action_counts,    \* rl_agent.state_action_counts
    epsilon,                \* rl_agent.epsilon, in 1/EpsUnit
    healing_strategies,     \* config['healing_strategies']: failure type -> shortlist
    failure_history,        \* deque(maxlen=1000) of FailureEvent
    healing_history,        \* deque(maxlen=1000) of healing attempts
    failure_patterns,       \* defaultdict(list): failure type -> entries
    healing_success_rates,  \* defaultdict: (failure type, action) -> counters
    response_times,         \* defaultdict(list): action -> durations
    resource_usage,         \* defaultdict(list): action -> costs
    failure_learning_data,  \* list of learning records
    clock,                  \* time.time(), in 1/DurUnit seconds
    calls,                  \* how many calls of each entry point were made
    healing_queue,          \* MLIntelligenceOrchestrator.healing_queue
    ml_healing_history,     \* MLIntelligenceOrchestrator.healing_history
    threads,                \* handle_failure calls in progress on other threads
    learning_history,       \* ContinuousLearningSystem: deque(maxlen=10000)
    experience_database,    \* the sqlite connection and its experiences table
    patterns,               \* PatternBasedLearning.patterns
    pattern_confidence,     \* PatternBasedLearning.pattern_confidence
    pattern_success_rates,  \* PatternBasedLearning.pattern_success_rates
    learning_strategies_performance,  \* MetaLearning: strategy -> counters
    meta_patterns,          \* MetaLearning.meta_patterns
    knowledge_base,         \* ContinuousLearningSystem.knowledge_base
    learning_metrics,       \* learning_metrics['confidence_scores']
    adaptation_events,      \* ContinuousLearningSystem.adaptation_events
    le,                     \* the last record_experience call and its result
    min_epsilon,            \* config['rl_config']['min_epsilon'], in 1/EpsUnit
    state_file,             \* the files save_state and save_learning_state write
    deques,                 \* which metric lists a load made deques with a maxlen
    running,                \* the running flag of each of the two objects
    loops,                  \* the background threads: where each one is
    hf,                     \* the last handle_failure call: its locals and its outcome
    probe                   \* the last direct call of a pure or read-only method

vars == << q_table, state_action_counts, epsilon, healing_strategies,
           failure_history, healing_history, failure_patterns,
           healing_success_rates, response_times, resource_usage,
           failure_learning_data, clock, calls, healing_queue, ml_healing_history, threads,
           learning_history, experience_database, patterns, pattern_confidence,
           pattern_success_rates, learning_strategies_performance, meta_patterns,
           knowledge_base, learning_metrics, adaptation_events, le, min_epsilon,
           state_file,
           deques, running, loops, hf, probe >>

orchestrator == << q_table, state_action_counts, epsilon, healing_strategies,
                   failure_history, healing_history, failure_patterns,
                   healing_success_rates, response_times, resource_usage,
                   failure_learning_data >>

\* the ContinuousLearningSystem object
learning_system == << learning_history, experience_database, patterns,
                      pattern_confidence, pattern_success_rates,
                      learning_strategies_performance, meta_patterns,
                      knowledge_base, learning_metrics, adaptation_events >>

\* the configuration read at run time, the snapshot file and the background
\* threads
background == << min_epsilon, state_file, deques, running, loops >>

\* what a handle_failure call on the orchestrator does not touch
\* the queue and the history of the MLIntelligenceOrchestrator
coordination == << healing_queue, ml_healing_history >>

others == << coordination, threads, learning_system, le, background >>

EmptyMap == [k \in {} |-> 0]
NoCall == [op |-> "none"]

\* defaultdict read: d[k], the default when k is missing
Get(d, k, default) == IF k \in DOMAIN d THEN d[k] ELSE default
\* defaultdict write (a read of a missing key also stores the default)
Put(d, k, v) == [j \in DOMAIN d \cup {k} |-> IF j = k THEN v ELSE d[j]]

ZeroRate == [successes |-> 0, attempts |-> 0]

\* ----------------------------------------------------------- QLearningAgent

\* numpy indexing of an axis of length n: i in [-n, n), a negative i counts
\* from the end; anything else is an IndexError
InRange(i, n) == i >= -n /\ i < n
Wrap(i, n) == IF i < 0 THEN i + n ELSE i

\* np.argmax over one row: the first index holding the maximum
RECURSIVE ArgMaxFrom(_, _, _)
ArgMaxFrom(row, i, best) ==
    IF i >= n_actions THEN best
    ELSE ArgMaxFrom(row, i + 1, IF row[i] > row[best] THEN i ELSE best)

ArgMax(row) == ArgMaxFrom(row, 1, 0)

\* mutant: <= in place of <, which explores on a draw equal to epsilon
choose_action_le(q, eps, state, draw, rnd) ==
    IF draw <= eps THEN rnd ELSE ArgMax(q[Wrap(state, n_states)])

\* choose_action: draw is np.random.random() in 1/EpsUnit, rnd is
\* np.random.randint(n_actions)
choose_action(q, eps, state, draw, rnd) ==
    IF draw < eps THEN rnd ELSE ArgMax(q[Wrap(state, n_states)])

\* the exploiting branch indexes the table, the exploring one does not
choose_action_raises(eps, state, draw) ==
    ~(draw < eps) /\ ~InRange(state, n_states)

\* mutant: the best next value without the discount
td_target_undiscounted(q, reward, next_state) ==
    LET row == q[Wrap(next_state, n_states)]
    IN reward + row[ArgMax(row)]

td_target(q, reward, next_state) ==
    LET row == q[Wrap(next_state, n_states)]
    IN reward + TruncDiv(DiscountNum * row[ArgMax(row)], DiscountDen)

\* mutant: the TD error with its sign reversed
update_q_value_reversed(q, state, action, reward, next_state) ==
    LET s == Wrap(state, n_states)
        td_error == q[s][action] - td_target(q, reward, next_state)
    IN [q EXCEPT ![s][action] = @ + TruncDiv(LearningRateNum * td_error, LearningRateDen)]

\* mutant: the step is added to every cell of the row
update_q_value_row(q, state, action, reward, next_state) ==
    LET s == Wrap(state, n_states)
        td_error == td_target(q, reward, next_state) - q[s][action]
    IN [q EXCEPT ![s] = [a \in DOMAIN q[s] |->
                            q[s][a] + TruncDiv(LearningRateNum * td_error, LearningRateDen)]]

\* update_q_value, the q_table it leaves
update_q_value(q, state, action, reward, next_state) ==
    LET s == Wrap(state, n_states)
        td_error == td_target(q, reward, next_state) - q[s][action]
    IN [q EXCEPT ![s][action] = @ + TruncDiv(LearningRateNum * td_error, LearningRateDen)]

\* update_q_value, the state_action_counts it leaves
update_counts(counts, state, action) ==
    [counts EXCEPT ![Wrap(state, n_states)][action] = @ + 1]

\* ------------------------------------------------------ State/Action codec

\* mutant: the severity level without its cap at the top level
encode_state_uncapped(failure_event) ==
    LET failure_type_idx == IndexOf(FailureType, failure_event.failure_type)
        severity_level == TruncDiv(failure_event.severity * SeverityLevels, SevUnit)
    IN failure_type_idx * SeverityLevels + severity_level

encode_state(failure_event) ==
    LET failure_type_idx == IndexOf(FailureType, failure_event.failure_type)
        severity_level == Min(SeverityLevels - 1,
                              TruncDiv(failure_event.severity * SeverityLevels, SevUnit))
    IN failure_type_idx * SeverityLevels + severity_level

decode_action(action_idx) == HealingAction[action_idx + 1]

\* ------------------------------------------------------------ reward

\* the terms of calculate_reward before the clip
raw_reward(healing_result, failure_severity) ==
    LET base_reward == IF healing_result.success THEN Scale ELSE -Scale
        severity_bonus == (failure_severity * Scale) \div (2 * SevUnit)
        time_penalty == Min(Scale \div 2,
                            (healing_result.actual_duration * Scale) \div (300 * DurUnit))
        improvement_bonus ==
            (SumValues(healing_result.improvement_metrics) * Scale) \div (10 * SevUnit)
        side_effect_penalty == (Len(healing_result.side_effects) * Scale) \div 10
    IN base_reward + severity_bonus - time_penalty
         + improvement_bonus - side_effect_penalty

\* mutant: the reward without the clip
calculate_reward_unclipped(healing_result, failure_severity) ==
    raw_reward(healing_result, failure_severity)

\* a HealingResult is [success, actual_duration (1/DurUnit s),
\* improvement_metrics (name -> hundredths), side_effects (sequence of tags)]
calculate_reward(healing_result, failure_severity) ==
    LET reward == raw_reward(healing_result, failure_severity)
    IN Max(-RewardClip * Scale, Min(RewardClip * Scale, reward))

\* ------------------------------------------------- generate_healing_response

\* mutant: a generic default shortlist for a failure type without one
fallback_actions_generic(strategies, failure_type) ==
    IF failure_type \in DOMAIN strategies THEN strategies[failure_type]
    ELSE << "RESTART_SERVICE" >>

\* config['healing_strategies'].get(failure_type, [NO_ACTION])
fallback_actions(strategies, failure_type) ==
    IF failure_type \in DOMAIN strategies THEN strategies[failure_type]
    ELSE << "NO_ACTION" >>

\* the loop over fallback_actions: best_rate is successes/attempts kept as a
\* fraction, the comparison is the strict > of the code
RECURSIVE BestFallbackFrom(_, _, _, _, _, _)
BestFallbackFrom(rates, failure_type, actions, i, best_action, best_rate) ==
    IF i > Len(actions) THEN best_action
    ELSE LET d == Get(rates, << failure_type, actions[i] >>, ZeroRate)
             better == d.attempts > 0
                       /\ d.successes * best_rate.den > best_rate.num * d.attempts
         IN BestFallbackFrom(rates, failure_type, actions, i + 1,
                IF better THEN actions[i] ELSE best_action,
                IF better THEN [num |-> d.successes, den |-> d.attempts] ELSE best_rate)

\* mutant: >= in place of >, so that the last of equal rates wins
RECURSIVE BestFallbackLastFrom(_, _, _, _, _, _)
BestFallbackLastFrom(rates, failure_type, actions, i, best_action, best_rate) ==
    IF i > Len(actions) THEN best_action
    ELSE LET d == Get(rates, << failure_type, actions[i] >>, ZeroRate)
             better == d.attempts > 0
                       /\ d.successes * best_rate.den >= best_rate.num * d.attempts
         IN BestFallbackLastFrom(rates, failure_type, actions, i + 1,
                IF better THEN actions[i] ELSE best_action,
                IF better THEN [num |-> d.successes, den |-> d.attempts] ELSE best_rate)

best_fallback_last(rates, failure_type, actions) ==
    BestFallbackLastFrom(rates, failure_type, actions, 1, actions[1], [num |-> 0, den |-> 1])

best_fallback(rates, failure_type, actions) ==
    BestFallbackFrom(rates, failure_type, actions, 1, actions[1], [num |-> 0, den |-> 1])

\* mutant: the suggestion is taken whatever the shortlist holds
uses_suggestion_always(suggested_action, actions, history_len) ==
    suggested_action \in SeqToSet(actions) \/ history_len >= 0

\* the selection rule; history_len is len(self.failure_history)
uses_suggestion(suggested_action, actions, history_len) ==
    suggested_action \in SeqToSet(actions) \/ history_len < ColdStartFailures

chosen_action(rates, strategies, failure_type, suggested_action, history_len) ==
    LET actions == fallback_actions(strategies, failure_type)
    IN IF uses_suggestion(suggested_action, actions, history_len)
       THEN suggested_action
       ELSE best_fallback(rates, failure_type, actions)

\* the defaultdict entries the call creates by reading them
RECURSIVE Touch(_, _)
Touch(rates, keys) ==
    IF keys = {} THEN rates
    ELSE LET k == CHOOSE k \in keys : TRUE
         IN Touch(Put(rates, k, Get(rates, k, ZeroRate)), keys \ {k})

rates_after_generate(rates, strategies, failure_type, suggested_action, history_len) ==
    LET actions == fallback_actions(strategies, failure_type)
        chosen == chosen_action(rates, strategies, failure_type, suggested_action, history_len)
        scanned == IF uses_suggestion(suggested_action, actions, history_len) THEN {}
                   ELSE { << failure_type, a >> : a \in SeqToSet(actions) }
    IN Touch(rates, scanned \cup { << failure_type, chosen >> })

\* priority and base success probability (1/EpsUnit) from the severity thresholds
priority_of(severity) ==
    IF severity * 10 >= 8 * SevUnit THEN [priority |-> "CRITICAL", success_prob |-> 900]
    ELSE IF severity * 10 >= 6 * SevUnit THEN [priority |-> "HIGH", success_prob |-> 800]
    ELSE IF severity * 10 >= 4 * SevUnit THEN [priority |-> "MEDIUM", success_prob |-> 700]
    ELSE [priority |-> "LOW", success_prob |-> 600]

\* success_probability as a fraction: the base value, or its mean with the
\* historical rate once the pair has more than 5 attempts
success_probability(rates, failure_type, action, severity) ==
    LET base == priority_of(severity).success_prob
        d == Get(rates, << failure_type, action >>, ZeroRate)
    IN IF d.attempts > 5
       THEN [num |-> base * d.attempts + EpsUnit * d.successes,
             den |-> 2 * EpsUnit * d.attempts]
       ELSE [num |-> base, den |-> EpsUnit]

\* config['action_parameters']: the two values that depend on the severity
DefaultScaleFactor == Frac(3, 2)
MaxScaleFactor == Frac(3, 1)
DefaultThrottleRate == Frac(1, 2)
MinThrottleRate == Frac(1, 10)

\* lines 403-411: the copy of the configured parameters of the action, with
\* scale_factor or throttle_rate adjusted to the severity; the configured
\* dict itself is not written
action_parameters(chosen, severity) ==
    LET scaled == FracTimes(DefaultScaleFactor, Frac(SevUnit + severity, SevUnit))
        throttled == FracTimes(DefaultThrottleRate,
                               Frac(2 * SevUnit - severity, 2 * SevUnit))
    IN IF chosen = "SCALE_UP"
       THEN [k \in {"scale_factor"} |->
                IF FracGE(scaled, MaxScaleFactor) THEN MaxScaleFactor ELSE scaled]
       ELSE IF chosen = "THROTTLE_REQUESTS"
       THEN [k \in {"throttle_rate"} |->
                IF FracGE(MinThrottleRate, throttled) THEN MinThrottleRate ELSE throttled]
       ELSE EmptyMap

generate_healing_response(rates, strategies, failure_event, suggested_action, history_len) ==
    LET chosen == chosen_action(rates, strategies, failure_event.failure_type,
                                suggested_action, history_len)
    IN [ action |-> chosen,
         parameters |-> action_parameters(chosen, failure_event.severity),
         priority |-> priority_of(failure_event.severity).priority,
         estimated_duration |-> DurationEstimates[chosen],
         success_probability |->
             success_probability(rates, failure_event.failure_type, chosen,
                                 failure_event.severity),
         resource_cost |-> (failure_event.severity * Scale) \div (2 * SevUnit) ]

\* ---------------------------------------------------- execute_healing_action

\* the metric the simulation improves for a failure type, with the ends of
\* its np.random.uniform range in hundredths
improved_metric(failure_type) ==
    CASE failure_type = "CPU_OVERLOAD" -> [name |-> "cpu_usage", lo |-> 20, hi |-> 50]
      [] failure_type = "MEMORY_LEAK" -> [name |-> "memory_usage", lo |-> 10, hi |-> 40]
      [] failure_type = "NETWORK_TIMEOUT" -> [name |-> "response_time", lo |-> 30, hi |-> 60]
      [] OTHER -> [name |-> "", lo |-> 0, hi |-> 0]

\* success_draw and side_draw are np.random.random() in 1/EpsUnit, u is the
\* position of the uniform draw in its range, in hundredths
execute_healing_action(response, failure_event, success_draw, u, side_draw) ==
    LET p == response.success_probability
        success == success_draw * p.den < p.num * EpsUnit
        m == improved_metric(failure_event.failure_type)
        improvement_metrics ==
            IF success /\ m.name # ""
            THEN [k \in {m.name} |-> m.lo + ((m.hi - m.lo) * u) \div SevUnit]
            ELSE EmptyMap
        side_effects ==
            IF response.action = "RESTART_SERVICE" /\ side_draw * 10 < EpsUnit
            THEN << "brief_service_interruption" >>
            ELSE IF response.action = "SCALE_UP" /\ side_draw * 20 < EpsUnit
            THEN << "increased_resource_cost" >>
            ELSE << >>
    IN [ response_id |-> response.response_id,
         success |-> success,
         actual_duration |-> Min(5 * DurUnit, (response.estimated_duration * DurUnit) \div 10),
         improvement_metrics |-> improvement_metrics,
         side_effects |-> side_effects ]

\* HealingResponse(...): the dataclass fills response_id from the clock second
HealingResponse(fields, now) ==
    [ action |-> fields.action, parameters |-> fields.parameters,
      priority |-> fields.priority,
      estimated_duration |-> fields.estimated_duration,
      success_probability |-> fields.success_probability,
      resource_cost |-> fields.resource_cost,
      response_id |-> now \div DurUnit ]

\* ------------------------------------------------------------ construction

\* SelfHealingOrchestrator.__init__ with the default configuration
Fresh ==
    /\ q_table = [s \in 0..(n_states - 1) |-> [a \in 0..(n_actions - 1) |-> 0]]
    /\ state_action_counts = [s \in 0..(n_states - 1) |-> [a \in 0..(n_actions - 1) |-> 0]]
    /\ healing_strategies = DefaultStrategies
    /\ failure_history = << >>
    /\ healing_history = << >>
    /\ failure_patterns = EmptyMap
    /\ healing_success_rates = EmptyMap
    /\ response_times = EmptyMap
    /\ resource_usage = EmptyMap
    /\ failure_learning_data = << >>
    /\ hf = NoCall

NoCalls == [handle_failure |-> 0, record_experience |-> 0]
NoThreads == << >>
NoDatabase == [connected |-> FALSE, experiences |-> EmptyMap]

\* ContinuousLearningSystem.__init__ up to the database connection
FreshLearning ==
    /\ learning_history = << >>
    /\ patterns = EmptyMap
    /\ pattern_confidence = EmptyMap
    /\ pattern_success_rates = EmptyMap
    /\ learning_strategies_performance = EmptyMap
    /\ meta_patterns = EmptyMap
    /\ knowledge_base = EmptyMap
    /\ learning_metrics = << >>
    /\ adaptation_events = << >>
    /\ le = NoCall

NoFile == [written |-> FALSE]
NoFiles == [orchestrator |-> NoFile, learning |-> NoFile]
NoDeques == [response_times |-> {}, resource_usage |-> {}, learning_metrics |-> FALSE]
NotRunning == [orchestrator |-> FALSE, learning |-> FALSE]
NoStop == [owner |-> "none"]
NoLoops == [threads |-> << >>, stop |-> NoStop]

\* nothing saved, start_orchestrator and start_continuous_learning not called
NothingStarted ==
    /\ state_file = NoFiles
    /\ deques = NoDeques
    /\ running = NotRunning
    /\ loops = NoLoops

\* the default rl_config
Quiet == min_epsilon = MinEpsilon /\ NothingStarted

\* the orchestrator used on its own, by one caller, with no database file
Alone ==
    /\ Quiet
    /\ clock = 0
    /\ calls = NoCalls
    /\ healing_queue = << >>
    /\ ml_healing_history = << >>
    /\ threads = NoThreads
    /\ FreshLearning
    /\ experience_database = NoDatabase

\* ------------------------------------------------------------ handle_failure

\* detect_failure_patterns, the entry it appends to failure_patterns
patterns_after_detect(detected, failure_event) ==
    Put(detected, failure_event.failure_type,
        Append(Get(detected, failure_event.failure_type, << >>),
               [severity |-> failure_event.severity]))

\* the timestamps of the failures of one type, in the order of the history
failure_times_of(failures, failure_type) ==
    LET same == SelectSeq(failures, LAMBDA f : f.failure_type = failure_type)
    IN [i \in DOMAIN same |-> same[i].timestamp]

\* mutant: the whole failure history is looked at
detect_failure_patterns_in_all(history, failure_event) ==
    LET recent_failures == history
        failure_times == failure_times_of(recent_failures, failure_event.failure_type)
        time_intervals == [i \in 1..(Len(failure_times) - 1) |->
                              failure_times[i + 1] - failure_times[i]]
    IN IF /\ Len(failure_times) >= MinPatternFrequency
          /\ time_intervals # << >>
          /\ SumSeq(time_intervals) < RecurringInterval * Len(time_intervals)
       THEN << [type |-> "recurring_failure",
                failure_type |-> failure_event.failure_type,
                average_interval |-> Frac(SumSeq(time_intervals), Len(time_intervals)),
                frequency |-> Len(failure_times)] >>
       ELSE << >>

\* detect_failure_patterns, lines 331-349: the patterns it returns; history is
\* failure_history with the event in it, timestamps are in seconds.  The
\* events name no affected components, so there is no component_hotspot.
detect_failure_patterns(history, failure_event) ==
    LET recent_failures == LastN(history, PatternWindow)
        failure_times == failure_times_of(recent_failures, failure_event.failure_type)
        time_intervals == [i \in 1..(Len(failure_times) - 1) |->
                              failure_times[i + 1] - failure_times[i]]
    IN IF /\ Len(failure_times) >= MinPatternFrequency
          /\ time_intervals # << >>
          /\ SumSeq(time_intervals) < RecurringInterval * Len(time_intervals)
       THEN << [type |-> "recurring_failure",
                failure_type |-> failure_event.failure_type,
                average_interval |-> Frac(SumSeq(time_intervals), Len(time_intervals)),
                frequency |-> Len(failure_times)] >>
       ELSE << >>

\* mutant: successes counted whatever the result
record_attempt_always(rates, key, success) ==
    LET d == Get(rates, key, ZeroRate)
    IN Put(rates, key, [successes |-> d.successes + 1, attempts |-> d.attempts + 1])

\* the counters of one strategy key after one completed attempt
record_attempt(rates, key, success) ==
    LET d == Get(rates, key, ZeroRate)
    IN Put(rates, key, [successes |-> d.successes + (IF success THEN 1 ELSE 0),
                        attempts |-> d.attempts + 1])

append_to(lists, key, x) == Put(lists, key, Append(Get(lists, key, << >>), x))

\* lines 549-550: self.response_times[action].append(x), on the list the
\* defaultdict makes or on the deque(maxlen=100) load_state put there
append_sample(lists, bounded, key, x) ==
    IF key \in bounded
    THEN Put(lists, key, DequeAppend(Get(lists, key, << >>), x, SampleMaxLen))
    ELSE append_to(lists, key, x)

\* handle_failure when every step returns, as far as the orchestrator goes.
\* The draws are those of choose_action (draw, rnd) and of
\* execute_healing_action.
HandleFailureCall(failure_event, draw, rnd, success_draw, u, side_draw) ==
    LET history == DequeAppend(failure_history, failure_event, HistoryMaxLen)
        state == encode_state(failure_event)
        action_idx == choose_action(q_table, epsilon, state, draw, rnd)
        suggested_action == decode_action(action_idx)
        response == HealingResponse(
                        generate_healing_response(healing_success_rates, healing_strategies,
                            failure_event, suggested_action, Len(history)), clock)
        generated == rates_after_generate(healing_success_rates, healing_strategies,
                        failure_event.failure_type, suggested_action, Len(history))
        result == execute_healing_action(response, failure_event, success_draw, u, side_draw)
        action == IndexOf(HealingAction, response.action)
        reward == calculate_reward(result, failure_event.severity)
        next_state == state
        strategy_key == << failure_event.failure_type, response.action >>
    IN /\ InRange(state, n_states)
       /\ failure_history' = history
       /\ failure_patterns' = patterns_after_detect(failure_patterns, failure_event)
       /\ healing_history' = DequeAppend(healing_history,
              [failure_event |-> failure_event, healing_response |-> response,
               healing_result |-> result], HistoryMaxLen)
       /\ q_table' = update_q_value(q_table, state, action, reward, next_state)
       /\ state_action_counts' = update_counts(state_action_counts, state, action)
       /\ healing_success_rates' = record_attempt(generated, strategy_key, result.success)
       /\ response_times' = append_sample(response_times, deques.response_times,
              response.action, result.actual_duration)
       /\ resource_usage' = append_sample(resource_usage, deques.resource_usage,
              response.action, response.resource_cost)
       /\ failure_learning_data' = Append(failure_learning_data,
              [failure_type |-> failure_event.failure_type,
               severity |-> failure_event.severity,
               action_taken |-> response.action,
               success |-> result.success,
               improvement |-> SumValues(result.improvement_metrics)])
       /\ hf' = [op |-> "handle_failure", outcome |-> "returned",
                 failure_event |-> failure_event,
                 history_len |-> Len(history),
                 patterns_detected |-> detect_failure_patterns(history, failure_event),
                 state |-> state, action_idx |-> action_idx,
                 suggested_action |-> suggested_action,
                 has_shortlist |-> failure_event.failure_type \in DOMAIN healing_strategies,
                 fallback_actions |-> fallback_actions(healing_strategies,
                                                       failure_event.failure_type),
                 response |-> response, result |-> result,
                 action |-> action, reward |-> reward, next_state |-> next_state,
                 q_before |-> q_table[Wrap(state, n_states)][action],
                 td_target |-> td_target(q_table, reward, next_state),
                 q_after |-> update_q_value(q_table, state, action, reward,
                                            next_state)[Wrap(state, n_states)][action],
                 summary |-> [failure_handled |-> TRUE,
                              healing_action |-> response.action,
                              success |-> result.success,
                              duration |-> result.actual_duration,
                              improvement_metrics |-> result.improvement_metrics,
                              side_effects |-> result.side_effects]]
       /\ clock' = clock + result.actual_duration
       /\ UNCHANGED << epsilon, healing_strategies, probe >>

\* handle_failure called by itself
HandleFailure(failure_event, draw, rnd, success_draw, u, side_draw) ==
    /\ HandleFailureCall(failure_event, draw, rnd, success_draw, u, side_draw)
    /\ calls' = [calls EXCEPT !.handle_failure = @ + 1]
    /\ UNCHANGED others

\* handle_failure when the executor raises: handle_failure has no handler
\* around execute_healing_action, so the call ends there and the error goes
\* to the caller
HandleFailureExecutorRaisesCall(failure_event, draw, rnd) ==
    LET history == DequeAppend(failure_history, failure_event, HistoryMaxLen)
        state == encode_state(failure_event)
        action_idx == choose_action(q_table, epsilon, state, draw, rnd)
        suggested_action == decode_action(action_idx)
        response == HealingResponse(
                        generate_healing_response(healing_success_rates, healing_strategies,
                            failure_event, suggested_action, Len(history)), clock)
    IN /\ InRange(state, n_states)
       /\ failure_history' = history
       /\ failure_patterns' = patterns_after_detect(failure_patterns, failure_event)
       /\ healing_success_rates' =
              rates_after_generate(healing_success_rates, healing_strategies,
                  failure_event.failure_type, suggested_action, Len(history))
       /\ hf' = [op |-> "handle_failure", outcome |-> "raised",
                 failure_event |-> failure_event,
                 history_len |-> Len(history),
                 state |-> state, action_idx |-> action_idx,
                 suggested_action |-> suggested_action,
                 has_shortlist |-> failure_event.failure_type \in DOMAIN healing_strategies,
                 fallback_actions |-> fallback_actions(healing_strategies,
                                                       failure_event.failure_type),
                 response |-> response]
       /\ UNCHANGED << q_table, state_action_counts, epsilon, healing_strategies,
                       healing_history, response_times, resource_usage,
                       failure_learning_data, clock, probe >>

HandleFailureExecutorRaises(failure_event, draw, rnd) ==
    /\ HandleFailureExecutorRaisesCall(failure_event, draw, rnd)
    /\ calls' = [calls EXCEPT !.handle_failure = @ + 1]
    /\ UNCHANGED others

\* mutant: the counters of the strategy are updated before the Q-table
HandleFailureIndexErrorCountsFirst(failure_event, draw, rnd, success_draw, u, side_draw) ==
    LET history == DequeAppend(failure_history, failure_event, HistoryMaxLen)
        state == encode_state(failure_event)
        explore == draw < epsilon
        suggested_action == decode_action(rnd)
        response == HealingResponse(
                        generate_healing_response(healing_success_rates, healing_strategies,
                            failure_event, suggested_action, Len(history)), clock)
        generated == rates_after_generate(healing_success_rates, healing_strategies,
                        failure_event.failure_type, suggested_action, Len(history))
        result == execute_healing_action(response, failure_event, success_draw, u, side_draw)
    IN /\ ~InRange(state, n_states)
       /\ failure_history' = history
       /\ failure_patterns' = patterns_after_detect(failure_patterns, failure_event)
       /\ healing_success_rates' =
              IF explore
              THEN record_attempt(generated,
                       << failure_event.failure_type, response.action >>, result.success)
              ELSE healing_success_rates
       /\ healing_history' =
              IF explore
              THEN DequeAppend(healing_history,
                       [failure_event |-> failure_event, healing_response |-> response,
                        healing_result |-> result], HistoryMaxLen)
              ELSE healing_history
       /\ clock' = IF explore THEN clock + result.actual_duration ELSE clock
       /\ calls' = [calls EXCEPT !.handle_failure = @ + 1]
       /\ hf' = [op |-> "handle_failure", outcome |-> "raised",
                 failure_event |-> failure_event, history_len |-> Len(history),
                 state |-> state,
                 raised_in |-> IF explore THEN "update_q_value" ELSE "choose_action"]
       /\ UNCHANGED << q_table, state_action_counts, epsilon, healing_strategies,
                       response_times, resource_usage, failure_learning_data, probe >>
       /\ UNCHANGED others

\* handle_failure for an event whose state is outside the Q-table: the
\* exploiting choose_action raises IndexError inside
\* generate_healing_response; an exploring one returns, the action is
\* executed and recorded, and update_q_value raises IndexError
HandleFailureIndexError(failure_event, draw, rnd, success_draw, u, side_draw) ==
    LET history == DequeAppend(failure_history, failure_event, HistoryMaxLen)
        state == encode_state(failure_event)
        explore == draw < epsilon
        suggested_action == decode_action(rnd)
        response == HealingResponse(
                        generate_healing_response(healing_success_rates, healing_strategies,
                            failure_event, suggested_action, Len(history)), clock)
        generated == rates_after_generate(healing_success_rates, healing_strategies,
                        failure_event.failure_type, suggested_action, Len(history))
        result == execute_healing_action(response, failure_event, success_draw, u, side_draw)
    IN /\ ~InRange(state, n_states)
       /\ failure_history' = history
       /\ failure_patterns' = patterns_after_detect(failure_patterns, failure_event)
       /\ healing_success_rates' = IF explore THEN generated ELSE healing_success_rates
       /\ healing_history' =
              IF explore
              THEN DequeAppend(healing_history,
                       [failure_event |-> failure_event, healing_response |-> response,
                        healing_result |-> result], HistoryMaxLen)
              ELSE healing_history
       /\ clock' = IF explore THEN clock + result.actual_duration ELSE clock
       /\ calls' = [calls EXCEPT !.handle_failure = @ + 1]
       /\ hf' = [op |-> "handle_failure", outcome |-> "raised",
                 failure_event |-> failure_event, history_len |-> Len(history),
                 state |-> state,
                 raised_in |-> IF explore THEN "update_q_value" ELSE "choose_action"]
       /\ UNCHANGED << q_table, state_action_counts, epsilon, healing_strategies,
                       response_times, resource_usage, failure_learning_data, probe >>
       /\ UNCHANGED others

\* ------------------------------------------ handle_failure on several threads

\* handle_failure takes no lock.  A call running on its own thread is a
\* record of its locals and of the statement it is at; another thread can
\* run between any two of its reads and writes of the shared tables.
Running(t, pc) == t \in DOMAIN threads /\ threads[t].pc = pc
Goto(t, pc) == [threads EXCEPT ![t].pc = pc]
GotoWith(t, pc, tmp) == [threads EXCEPT ![t].pc = pc, ![t].tmp = tmp]
shared == << q_table, state_action_counts, healing_success_rates, failure_history,
             healing_history, failure_patterns, response_times, resource_usage,
             failure_learning_data >>
StrategyKey(t) == << threads[t].failure_event.failure_type, threads[t].response.action >>

\* lines 507-520: a new call appends the event, detects patterns and
\* generates its response
ThreadBegin(failure_event, draw, rnd) ==
    LET history == DequeAppend(failure_history, failure_event, HistoryMaxLen)
        state == encode_state(failure_event)
        action_idx == choose_action(q_table, epsilon, state, draw, rnd)
        suggested_action == decode_action(action_idx)
        response == HealingResponse(
                        generate_healing_response(healing_success_rates, healing_strategies,
                            failure_event, suggested_action, Len(history)), clock)
    IN /\ InRange(state, n_states)
       /\ failure_history' = history
       /\ failure_patterns' = patterns_after_detect(failure_patterns, failure_event)
       /\ healing_success_rates' =
              rates_after_generate(healing_success_rates, healing_strategies,
                  failure_event.failure_type, suggested_action, Len(history))
       /\ threads' = Append(threads,
              [pc |-> "execute", failure_event |-> failure_event, started |-> clock,
               response |-> response, result |-> NoCall, state |-> state,
               action |-> IndexOf(HealingAction, response.action),
               reward |-> 0, td_error |-> 0, tmp |-> 0])
       /\ calls' = [calls EXCEPT !.handle_failure = @ + 1]
       /\ UNCHANGED << q_table, state_action_counts, healing_history, response_times,
                       resource_usage, failure_learning_data >>
       /\ UNCHANGED << epsilon, healing_strategies, clock, coordination,
                       learning_system, le, background, hf, probe >>

\* what a step of a running call leaves alone besides the tables it names
ThreadFrame == UNCHANGED << epsilon, healing_strategies, calls, coordination,
                            learning_system, le, background, probe >>

\* lines 523-537: the action is executed (the thread sleeps), the attempt is
\* appended to healing_history and the reward computed
ThreadExecute(t, success_draw, u, side_draw) ==
    LET th == threads[t]
        result == execute_healing_action(th.response, th.failure_event,
                                         success_draw, u, side_draw)
    IN /\ Running(t, "execute")
       /\ healing_history' = DequeAppend(healing_history,
              [failure_event |-> th.failure_event, healing_response |-> th.response,
               healing_result |-> result], HistoryMaxLen)
       /\ clock' = Max(clock, th.started + result.actual_duration)
       /\ threads' = [threads EXCEPT ![t].pc = "td_error", ![t].result = result,
                          ![t].reward = calculate_reward(result, th.failure_event.severity)]
       /\ UNCHANGED << q_table, state_action_counts, healing_success_rates,
                       failure_history, failure_patterns, response_times, resource_usage,
                       failure_learning_data, hf >>
       /\ ThreadFrame

\* lines 46-48: td_error from the table as it is now
ThreadTdError(t) ==
    /\ Running(t, "td_error")
    /\ threads' = [threads EXCEPT ![t].pc = "read_q",
                      ![t].td_error = td_target(q_table, threads[t].reward, threads[t].state)
                          - q_table[Wrap(threads[t].state, n_states)][threads[t].action]]
    /\ UNCHANGED << shared, clock, hf >>
    /\ ThreadFrame

\* line 49, q_table[state][action] += ...: the read of the cell
ThreadReadQ(t) ==
    /\ Running(t, "read_q")
    /\ threads' = GotoWith(t, "write_q",
                      q_table[Wrap(threads[t].state, n_states)][threads[t].action])
    /\ UNCHANGED << shared, clock, hf >>
    /\ ThreadFrame

\* line 49: the write of the cell
ThreadWriteQ(t) ==
    /\ Running(t, "write_q")
    /\ q_table' = [q_table EXCEPT ![Wrap(threads[t].state, n_states)][threads[t].action] =
                      threads[t].tmp
                        + TruncDiv(LearningRateNum * threads[t].td_error, LearningRateDen)]
    /\ threads' = Goto(t, "read_count")
    /\ UNCHANGED << state_action_counts, healing_success_rates, failure_history,
                    healing_history, failure_patterns, response_times, resource_usage,
                    failure_learning_data, clock, hf >>
    /\ ThreadFrame

\* line 50, state_action_counts[state][action] += 1: the read
ThreadReadCount(t) ==
    /\ Running(t, "read_count")
    /\ threads' = GotoWith(t, "write_count",
                      state_action_counts[Wrap(threads[t].state, n_states)][threads[t].action])
    /\ UNCHANGED << shared, clock, hf >>
    /\ ThreadFrame

\* line 50: the write
ThreadWriteCount(t) ==
    /\ Running(t, "write_count")
    /\ state_action_counts' =
          [state_action_counts EXCEPT
              ![Wrap(threads[t].state, n_states)][threads[t].action] = threads[t].tmp + 1]
    /\ threads' = Goto(t, "read_attempts")
    /\ UNCHANGED << q_table, healing_success_rates, failure_history,
                    healing_history, failure_patterns, response_times, resource_usage,
                    failure_learning_data, clock, hf >>
    /\ ThreadFrame

\* line 544, ['attempts'] += 1: the read
ThreadReadAttempts(t) ==
    /\ Running(t, "read_attempts")
    /\ threads' = GotoWith(t, "write_attempts",
                      Get(healing_success_rates, StrategyKey(t), ZeroRate).attempts)
    /\ UNCHANGED << shared, clock, hf >>
    /\ ThreadFrame

\* line 544: the write; line 545 decides whether successes follow
ThreadWriteAttempts(t) ==
    /\ Running(t, "write_attempts")
    /\ healing_success_rates' =
          Put(healing_success_rates, StrategyKey(t),
              [Get(healing_success_rates, StrategyKey(t), ZeroRate)
                  EXCEPT !.attempts = threads[t].tmp + 1])
    /\ threads' = Goto(t, IF threads[t].result.success THEN "read_successes" ELSE "finish")
    /\ UNCHANGED << q_table, state_action_counts, failure_history,
                    healing_history, failure_patterns, response_times, resource_usage,
                    failure_learning_data, clock, hf >>
    /\ ThreadFrame

\* line 546, ['successes'] += 1: the read
ThreadReadSuccesses(t) ==
    /\ Running(t, "read_successes")
    /\ threads' = GotoWith(t, "write_successes",
                      Get(healing_success_rates, StrategyKey(t), ZeroRate).successes)
    /\ UNCHANGED << shared, clock, hf >>
    /\ ThreadFrame

\* line 546: the write
ThreadWriteSuccesses(t) ==
    /\ Running(t, "write_successes")
    /\ healing_success_rates' =
          Put(healing_success_rates, StrategyKey(t),
              [Get(healing_success_rates, StrategyKey(t), ZeroRate)
                  EXCEPT !.successes = threads[t].tmp + 1])
    /\ threads' = Goto(t, "finish")
    /\ UNCHANGED << q_table, state_action_counts, failure_history,
                    healing_history, failure_patterns, response_times, resource_usage,
                    failure_learning_data, clock, hf >>
    /\ ThreadFrame

\* lines 549-572: the metrics and the learning record are appended and the
\* summary returned
ThreadFinish(t) ==
    LET th == threads[t]
    IN /\ Running(t, "finish")
       /\ response_times' = append_sample(response_times, deques.response_times,
              th.response.action, th.result.actual_duration)
       /\ resource_usage' = append_sample(resource_usage, deques.resource_usage,
              th.response.action, th.response.resource_cost)
       /\ failure_learning_data' = Append(failure_learning_data,
              [failure_type |-> th.failure_event.failure_type,
               severity |-> th.failure_event.severity,
               action_taken |-> th.response.action,
               success |-> th.result.success,
               improvement |-> SumValues(th.result.improvement_metrics)])
       /\ threads' = Goto(t, "returned")
       /\ hf' = [op |-> "handle_failure", outcome |-> "returned", thread |-> t,
                 failure_event |-> th.failure_event, response |-> th.response,
                 result |-> th.result,
                 summary |-> [failure_handled |-> TRUE,
                              healing_action |-> th.response.action,
                              success |-> th.result.success,
                              duration |-> th.result.actual_duration,
                              improvement_metrics |-> th.result.improvement_metrics,
                              side_effects |-> th.result.side_effects]]
       /\ UNCHANGED << q_table, state_action_counts, healing_success_rates,
                       failure_history, healing_history, failure_patterns, clock >>
       /\ ThreadFrame

\* time passing between two calls
Idle(d) ==
    /\ clock' = clock + d
    /\ UNCHANGED << orchestrator, calls, others, hf, probe >>

\* ------------------------------------------------- ContinuousLearningSystem

\* A LearningExperience is a record of experience_id, experience_type,
\* timestamp (the type of the value given: "datetime" or "str"), context,
\* action_taken, outcome and confidence_score (in 1/SevUnit).  context and
\* outcome are dicts; a value of a dict is a cell [str |-> s], [num |-> n]
\* (hundredths), [bool |-> b], [none |-> TRUE] or [enum |-> str(member)].
Str(s) == [str |-> s]
Num(n) == [num |-> n]
Bool(b) == [bool |-> b]
None == [none |-> TRUE]
EnumMember(s) == [enum |-> s]
IsNum(c) == DOMAIN c = {"num"}
IsEnum(c) == DOMAIN c = {"enum"}

\* str(value) inside an f-string
StrOf(c) == IF DOMAIN c = {"str"} THEN c.str
            ELSE IF DOMAIN c = {"enum"} THEN c.enum
            ELSE IF DOMAIN c = {"none"} THEN "None"
            ELSE "number"

\* outcome.get('success', False), as the truth value Python gives it
OutcomeSuccess(experience) ==
    /\ "success" \in DOMAIN experience.outcome
    /\ DOMAIN experience.outcome["success"] = {"bool"}
    /\ experience.outcome["success"].bool

\* a dict that keeps its insertion order: a sequence of [key, value] entries
OKeys(od) == { od[i].key : i \in DOMAIN od }
OIndex(od, k) == CHOOSE i \in DOMAIN od : od[i].key = k
OGet(od, k, default) == IF k \in OKeys(od) THEN od[OIndex(od, k)].value ELSE default
OPut(od, k, v) ==
    IF k \in OKeys(od) THEN [od EXCEPT ![OIndex(od, k)].value = v]
    ELSE Append(od, [key |-> k, value |-> v])

\* _extract_pattern_key raises TypeError when the severity cannot be compared
pattern_key_raises(experience) ==
    /\ "severity" \in DOMAIN experience.context
    /\ ~IsNum(experience.context["severity"])

\* PatternBasedLearning._extract_pattern_key: the parts joined by "_"
extract_pattern_key(experience) ==
    << experience.experience_type, experience.action_taken >>
    \o (IF "failure_type" \in DOMAIN experience.context
        THEN << StrOf(experience.context["failure_type"]) >> ELSE << >>)
    \o (IF "severity" \in DOMAIN experience.context
        THEN << IF experience.context["severity"].num > 70 THEN "high"
                ELSE IF experience.context["severity"].num > 40 THEN "medium"
                ELSE "low" >>
        ELSE << >>)

\* pattern_confidence after learning: min(1.0, frequency * 0.1), in 1/ConfUnit
learned_confidence(pattern_frequency) ==
    Min(ConfUnit, (pattern_frequency * ConfUnit) \div 10)

\* mutant: the confidence is raised by 0.1 from its current value
pattern_learn_adds(experience) ==
    LET pattern_key == extract_pattern_key(experience)
        experiences == Append(OGet(patterns, pattern_key, << >>), experience)
        d == Get(pattern_success_rates, pattern_key, ZeroRate)
        confidence == Min(ConfUnit, Get(pattern_confidence, pattern_key, 0) + ConfUnit \div 10)
    IN [ patterns |-> OPut(patterns, pattern_key, experiences),
         pattern_success_rates |->
            IF "success" \in DOMAIN experience.outcome
            THEN Put(pattern_success_rates, pattern_key,
                     [successes |-> d.successes + (IF OutcomeSuccess(experience) THEN 1 ELSE 0),
                      attempts |-> d.attempts + 1])
            ELSE pattern_success_rates,
         pattern_confidence |-> Put(pattern_confidence, pattern_key, confidence),
         result |-> [pattern_key |-> pattern_key,
                     pattern_frequency |-> Len(experiences),
                     confidence |-> confidence] ]

\* mutant: the successes of a pattern are not counted
pattern_learn_uncounted(experience) ==
    LET pattern_key == extract_pattern_key(experience)
        experiences == Append(OGet(patterns, pattern_key, << >>), experience)
        d == Get(pattern_success_rates, pattern_key, ZeroRate)
    IN [ patterns |-> OPut(patterns, pattern_key, experiences),
         pattern_success_rates |->
            IF "success" \in DOMAIN experience.outcome
            THEN Put(pattern_success_rates, pattern_key,
                     [successes |-> d.successes, attempts |-> d.attempts + 1])
            ELSE pattern_success_rates,
         pattern_confidence |->
            Put(pattern_confidence, pattern_key, learned_confidence(Len(experiences))),
         result |-> [pattern_key |-> pattern_key,
                     pattern_frequency |-> Len(experiences),
                     confidence |-> learned_confidence(Len(experiences))] ]

\* PatternBasedLearning.learn_from_experience: the three dicts it leaves
pattern_learn(experience) ==
    LET pattern_key == extract_pattern_key(experience)
        experiences == Append(OGet(patterns, pattern_key, << >>), experience)
        d == Get(pattern_success_rates, pattern_key, ZeroRate)
    IN [ patterns |-> OPut(patterns, pattern_key, experiences),
         pattern_success_rates |->
            IF "success" \in DOMAIN experience.outcome
            THEN Put(pattern_success_rates, pattern_key,
                     [successes |-> d.successes + (IF OutcomeSuccess(experience) THEN 1 ELSE 0),
                      attempts |-> d.attempts + 1])
            ELSE pattern_success_rates,
         pattern_confidence |->
            Put(pattern_confidence, pattern_key, learned_confidence(Len(experiences))),
         result |-> [pattern_key |-> pattern_key,
                     pattern_frequency |-> Len(experiences),
                     confidence |-> learned_confidence(Len(experiences))] ]

\* MetaLearning.learn_from_experience raises AttributeError at
\* timestamp.isoformat() when the timestamp is not a datetime, after the
\* counters were updated
meta_raises(experience) == experience.timestamp # "datetime"

StrategyUsed(experience) ==
    IF "learning_strategy" \in DOMAIN experience.context
    THEN StrOf(experience.context["learning_strategy"]) ELSE "unknown"

\* mutant: an exception of the pattern strategy ends the loop over strategies
meta_learn_performance_stopped(experience) ==
    IF pattern_key_raises(experience) THEN learning_strategies_performance
    ELSE LET d == OGet(learning_strategies_performance, StrategyUsed(experience), ZeroRate)
         IN OPut(learning_strategies_performance, StrategyUsed(experience),
                 [successes |-> d.successes + (IF OutcomeSuccess(experience) THEN 1 ELSE 0),
                  attempts |-> d.attempts + 1])

\* MetaLearning.learn_from_experience: the counters it leaves
meta_learn_performance(experience) ==
    LET d == OGet(learning_strategies_performance, StrategyUsed(experience), ZeroRate)
    IN OPut(learning_strategies_performance, StrategyUsed(experience),
            [successes |-> d.successes + (IF OutcomeSuccess(experience) THEN 1 ELSE 0),
             attempts |-> d.attempts + 1])

\* MetaLearning.learn_from_experience: the meta_patterns it leaves
meta_learn_patterns(experience) ==
    IF meta_raises(experience) THEN meta_patterns
    ELSE append_to(meta_patterns, experience.experience_type,
                   [experience_type |-> experience.experience_type,
                    context_complexity |-> Cardinality(DOMAIN experience.context),
                    outcome_quality |-> experience.confidence_score,
                    strategy_used |-> StrategyUsed(experience)])

\* the learning_results of record_experience
learning_results(experience) ==
    [ pattern_based |-> IF pattern_key_raises(experience) THEN [error |-> "TypeError"]
                        ELSE pattern_learn(experience).result,
      meta_learning |-> IF meta_raises(experience) THEN [error |-> "AttributeError"]
                        ELSE [meta_learning |-> TRUE] ]

\* json.dumps raises TypeError on an enum member
json_serializable(d) == \A k \in DOMAIN d : ~IsEnum(d[k])

\* the row of the experiences table: the id is the primary key, the dicts
\* are stored as JSON text
experience_row(experience) ==
    [ experience_type |-> experience.experience_type,
      context |-> experience.context,
      action_taken |-> experience.action_taken,
      outcome |-> experience.outcome,
      confidence_score |-> experience.confidence_score ]

\* _store_experience_in_db: INSERT OR REPLACE, every exception caught and
\* logged.  db_ok is whether sqlite executes and commits the statement.
store_raises(experience, db_ok) ==
    \/ experience.timestamp # "datetime"
    \/ ~json_serializable(experience.context)
    \/ ~json_serializable(experience.outcome)
    \/ ~db_ok

\* mutant: INSERT OR IGNORE, the first row of an id is kept
store_experience_in_db_ignore(database, experience, db_ok) ==
    IF /\ database.connected /\ ~store_raises(experience, db_ok)
       /\ experience.experience_id \notin DOMAIN database.experiences
    THEN [database EXCEPT !.experiences =
              Put(@, experience.experience_id, experience_row(experience))]
    ELSE database

store_experience_in_db(database, experience, db_ok) ==
    IF database.connected /\ ~store_raises(experience, db_ok)
    THEN [database EXCEPT !.experiences =
              Put(@, experience.experience_id, experience_row(experience))]
    ELSE database

NewKnowledge == [experiences |-> << >>, patterns |-> << >>,
                 confidence |-> Frac(0, 1), success_rate |-> Frac(0, 1)]

\* _update_knowledge_base: knowledge_id is the md5 of type and action, taken
\* as the pair itself; history is learning_history with the experience in it
update_knowledge_base(kb, history, experience, results) ==
    LET knowledge_id == << experience.experience_type, experience.action_taken >>
        knowledge == OGet(kb, knowledge_id, NewKnowledge)
        ids == Append(knowledge.experiences, experience.experience_id)
        recent == SeqToSet(LastN(ids, KnowledgeWindow))
        IsRelated(e) == e.experience_id \in recent
        related == SelectSeq(history, IsRelated)
        successful == SelectSeq(related, OutcomeSuccess)
        scores == [i \in DOMAIN related |-> related[i].confidence_score]
    IN OPut(kb, knowledge_id,
            [ experiences |-> ids,
              patterns |->
                 IF "pattern_key" \in DOMAIN results.pattern_based
                 THEN Append(knowledge.patterns,
                         [strategy |-> "pattern_based",
                          pattern_key |-> results.pattern_based.pattern_key,
                          confidence |-> results.pattern_based.confidence,
                          frequency |-> results.pattern_based.pattern_frequency])
                 ELSE knowledge.patterns,
              confidence |-> IF related # << >>
                             THEN Frac(SumSeq(scores), Len(related) * SevUnit)
                             ELSE knowledge.confidence,
              success_rate |-> IF related # << >>
                               THEN Frac(Len(successful), Len(related))
                               ELSE knowledge.success_rate ])

\* record_experience.  Nothing in it reaches the caller as an exception: the
\* database write and each strategy run inside try/except.
RecordExperienceCall(experience, db_ok) ==
    LET history == DequeAppend(learning_history, experience, LearningHistoryMaxLen)
        learned == pattern_learn(experience)
        results == learning_results(experience)
    IN /\ learning_history' = history
       /\ experience_database' =
              store_experience_in_db(experience_database, experience, db_ok)
       /\ patterns' = IF pattern_key_raises(experience) THEN patterns
                      ELSE learned.patterns
       /\ pattern_success_rates' =
              IF pattern_key_raises(experience) THEN pattern_success_rates
              ELSE learned.pattern_success_rates
       /\ pattern_confidence' = IF pattern_key_raises(experience) THEN pattern_confidence
                                ELSE learned.pattern_confidence
       /\ learning_strategies_performance' = meta_learn_performance(experience)
       /\ meta_patterns' = meta_learn_patterns(experience)
       /\ knowledge_base' = update_knowledge_base(knowledge_base, history, experience, results)
       /\ learning_metrics' =
              IF deques.learning_metrics
              THEN DequeAppend(learning_metrics, experience.confidence_score, MetricsMaxLen)
              ELSE Append(learning_metrics, experience.confidence_score)
       /\ UNCHANGED adaptation_events
       /\ le' = [op |-> "record_experience", experience |-> experience,
                 stored |-> experience_database.connected /\ ~store_raises(experience, db_ok),
                 result |-> [experience_recorded |-> TRUE,
                             learning_results |-> results,
                             experience_id |-> experience.experience_id]]

\* record_experience called by itself
RecordExperience(experience, db_ok) ==
    /\ RecordExperienceCall(experience, db_ok)
    /\ calls' = [calls EXCEPT !.record_experience = @ + 1]
    /\ UNCHANGED << orchestrator, clock, coordination, threads, background, hf, probe >>

\* ------------------------------------------- MLIntelligenceOrchestrator

\* a list as the value of a dict
List(q) == [list |-> q]

\* the LearningExperience _healing_coordination_loop builds from the event
\* and the summary handle_failure returned, at the time now; the events
\* here name no affected components
healing_experience(failure_event, summary, now) ==
    [ experience_id |-> << "healing", now \div DurUnit >>,
      experience_type |-> "healing_action",
      timestamp |-> "datetime",
      context |-> [k \in {"failure_type", "severity", "affected_components"} |->
                     IF k = "failure_type" THEN EnumMember(failure_event.failure_type)
                     ELSE IF k = "severity" THEN Num(failure_event.severity)
                     ELSE List(<< >>)],
      action_taken |-> summary.healing_action,
      outcome |-> [k \in {"success", "duration", "improvement"} |->
                     IF k = "success" THEN Bool(summary.success)
                     ELSE IF k = "duration" THEN Num(summary.duration)
                     ELSE Num(SumValues(summary.improvement_metrics))],
      confidence_score |-> IF summary.success THEN 80 ELSE 30 ]

\* the monitoring side puts a detected failure on the healing queue
Enqueue(failure_event) ==
    /\ healing_queue' = Append(healing_queue, failure_event)
    /\ UNCHANGED << ml_healing_history, orchestrator, clock, calls, threads, learning_system, le,
                    background, hf, probe >>

\* one pass of _healing_coordination_loop in which handle_failure returns:
\* the event leaves the queue, is handled, and its experience is recorded
HealingLoopPass(draw, rnd, success_draw, u, side_draw, db_ok) ==
    /\ healing_queue # << >>
    /\ healing_queue' = Tail(healing_queue)
    /\ HandleFailureCall(Head(healing_queue), draw, rnd, success_draw, u, side_draw)
    /\ RecordExperienceCall(healing_experience(Head(healing_queue), hf'.summary, clock'),
                            db_ok)
    /\ ml_healing_history' =
          DequeAppend(ml_healing_history,
                      [failure_event |-> Head(healing_queue), healing_result |-> hf'.summary],
                      HistoryMaxLen)
    /\ calls' = [handle_failure |-> calls.handle_failure + 1,
                 record_experience |-> calls.record_experience + 1]
    /\ UNCHANGED << threads, background >>

\* one pass in which handle_failure raises: the loop logs the exception, the
\* event is gone and nothing is recorded
HealingLoopPassRaises(draw, rnd) ==
    /\ healing_queue # << >>
    /\ healing_queue' = Tail(healing_queue)
    /\ HandleFailureExecutorRaisesCall(Head(healing_queue), draw, rnd)
    /\ calls' = [calls EXCEPT !.handle_failure = @ + 1]
    /\ UNCHANGED << ml_healing_history, threads, learning_system, le, background >>

\* ------------------------------------------------------- get_recommendations

\* the sort key of get_recommendations: confidence * success_rate, a missing
\* key counting as 0.0
SortKey(rec) ==
    FracTimes(IF "confidence" \in DOMAIN rec THEN rec.confidence ELSE Frac(0, 1),
              IF "success_rate" \in DOMAIN rec THEN rec.success_rate ELSE Frac(0, 1))

\* x put after the entries of the sorted list whose key is not below its own
InsertDesc(sorted, x) ==
    LET n == Cardinality({ i \in DOMAIN sorted : FracGE(SortKey(sorted[i]), SortKey(x)) })
    IN SubSeq(sorted, 1, n) \o << x >> \o SubSeq(sorted, n + 1, Len(sorted))

\* list.sort(key=..., reverse=True): descending, equal keys in their order
RECURSIVE SortDesc(_)
SortDesc(q) ==
    IF q = << >> THEN << >>
    ELSE InsertDesc(SortDesc(SubSeq(q, 1, Len(q) - 1)), q[Len(q)])

FirstN(q, n) == IF Len(q) <= n THEN q ELSE SubSeq(q, 1, n)

\* PatternBasedLearning._is_relevant_pattern: the name is looked for inside
\* the key; for the names used here, none of which contains another, that is
\* being one of the parts of the key
is_relevant_pattern(pattern_key, context) ==
    \/ /\ "failure_type" \in DOMAIN context
       /\ StrOf(context["failure_type"]) \in SeqToSet(pattern_key)
    \/ /\ "experience_type" \in DOMAIN context
       /\ StrOf(context["experience_type"]) \in SeqToSet(pattern_key)

\* lines 106-125: one recommendation per relevant pattern with attempts and
\* with a successful experience, in the order of the patterns dict.  Every
\* experience of a pattern has the action_taken that is part of its key.
RECURSIVE pattern_candidates(_, _)
pattern_candidates(i, context) ==
    IF i > Len(patterns) THEN << >>
    ELSE LET pattern_key == patterns[i].key
             success_data == Get(pattern_success_rates, pattern_key, ZeroRate)
             successful_experiences == SelectSeq(patterns[i].value, OutcomeSuccess)
         IN (IF /\ is_relevant_pattern(pattern_key, context)
                /\ success_data.attempts > 0
                /\ successful_experiences # << >>
             THEN << [ action |-> successful_experiences[1].action_taken,
                       success_rate |-> Frac(success_data.successes, success_data.attempts),
                       confidence |-> Frac(pattern_confidence[pattern_key], ConfUnit),
                       pattern_key |-> pattern_key,
                       supporting_experiences |-> Len(successful_experiences),
                       source_strategy |-> "pattern_based" ] >>
             ELSE << >>)
            \o pattern_candidates(i + 1, context)

\* PatternBasedLearning.get_recommendations: the top 5 by the product
pattern_recommendations(context) ==
    FirstN(SortDesc(pattern_candidates(1, context)), PatternTop)

\* MetaLearning.get_recommendations, lines 179-187: the first strategy with
\* the highest success rate above 0 among those with more than 5 attempts
RECURSIVE best_strategy(_, _, _)
best_strategy(i, best, best_success_rate) ==
    IF i > Len(learning_strategies_performance) THEN best
    ELSE LET performance == learning_strategies_performance[i].value
             success_rate == Frac(performance.successes, Max(1, performance.attempts))
         IN IF performance.attempts > MetaMinAttempts /\ FracGT(success_rate, best_success_rate)
            THEN best_strategy(i + 1, learning_strategies_performance[i].key, success_rate)
            ELSE best_strategy(i + 1, best, best_success_rate)

meta_recommendations ==
    LET best == best_strategy(1, "", Frac(0, 1))
        performance == OGet(learning_strategies_performance, best, ZeroRate)
    IN IF best = "" THEN << >>
       ELSE << [ recommendation_type |-> "learning_strategy",
                 suggested_strategy |-> best,
                 expected_success_rate |-> Frac(performance.successes, performance.attempts),
                 confidence |-> Frac(Min(20, performance.attempts), 20),
                 source_strategy |-> "meta_learning" ] >>

\* _get_knowledge_base_recommendations: the entries over both thresholds
\* that have a pattern, in the order of the knowledge_base dict
RECURSIVE knowledge_base_recommendations(_)
knowledge_base_recommendations(i) ==
    IF i > Len(knowledge_base) THEN << >>
    ELSE LET knowledge == knowledge_base[i].value
         IN (IF /\ FracGE(knowledge.success_rate, Frac(SuccessRateThreshold, 10))
                /\ FracGE(knowledge.confidence, Frac(ConfidenceThreshold, 10))
                /\ knowledge.patterns # << >>
             THEN << [ recommendation_type |-> "knowledge_base",
                       knowledge_id |-> knowledge_base[i].key,
                       confidence |-> knowledge.confidence,
                       success_rate |-> knowledge.success_rate,
                       pattern_info |-> knowledge.patterns[Len(knowledge.patterns)],
                       supporting_experiences |-> Len(knowledge.experiences) ] >>
             ELSE << >>)
            \o knowledge_base_recommendations(i + 1)

\* ContinuousLearningSystem.get_recommendations
get_recommendations(context) ==
    FirstN(SortDesc(pattern_recommendations(context) \o meta_recommendations
                    \o knowledge_base_recommendations(1)), RecommendationsTop)

\* the patterns whose counters lines 107-108 read
RelevantKeys(context) ==
    { patterns[i].key : i \in { j \in DOMAIN patterns :
                                  is_relevant_pattern(patterns[j].key, context) } }

GetRecommendations(context) ==
    /\ probe' = [op |-> "get_recommendations", context |-> context,
                 recorded |-> calls.record_experience,
                 recommendations |-> get_recommendations(context)]
    /\ pattern_success_rates' = Touch(pattern_success_rates, RelevantKeys(context))
    /\ UNCHANGED << learning_history, experience_database, patterns, pattern_confidence,
                    learning_strategies_performance, meta_patterns, knowledge_base,
                    learning_metrics, adaptation_events, le >>
    /\ UNCHANGED << orchestrator, clock, calls, coordination, threads, background, hf >>

\* ---------------------------------------------- _decay_pattern_confidences

\* mutant: the confidence is raised by the decay rate
decay_confidence_up(c) ==
    (c * (PatternDecayDen + PatternDecayNum) * 2 + PatternDecayDen) \div (2 * PatternDecayDen)

\* confidence *= (1 - decay_rate): the product is rounded to the nearest
\* representable value, here the nearest multiple of 1/ConfUnit, a product
\* halfway between two going up as the double nearest to 0.9 is above 0.9
decay_confidence(c) ==
    (c * (PatternDecayDen - PatternDecayNum) * 2 + PatternDecayDen) \div (2 * PatternDecayDen)

\* one tick of the learning loop, line 583
DecayPatternConfidences ==
    /\ pattern_confidence' =
          [k \in DOMAIN pattern_confidence |-> decay_confidence(pattern_confidence[k])]
    /\ le' = [op |-> "decay_pattern_confidences", before |-> pattern_confidence]
    /\ UNCHANGED << learning_history, experience_database, patterns, pattern_success_rates,
                    learning_strategies_performance, meta_patterns, knowledge_base,
                    learning_metrics, adaptation_events >>
    /\ UNCHANGED << orchestrator, clock, calls, coordination, threads, background,
                    hf, probe >>

\* ------------------------------------------ adapt_system_based_on_learning

\* lines 518-550: the adaptations list; metrics is
\* learning_metrics['confidence_scores'] and rates is
\* pattern_strategy.pattern_success_rates.  low_success_patterns is taken as
\* the set of its keys.
adaptations_of(metrics, rates) ==
    LET recent == LastN(metrics, RecentConfidence)
        low == { k \in DOMAIN rates :
                    /\ rates[k].attempts > AdaptationMinAttempts
                    /\ rates[k].successes * LowSuccessDen
                          < LowSuccessNum * rates[k].attempts }
    IN (IF recent # << >>
           /\ SumSeq(recent) * LowConfidenceDen
                 < LowConfidenceNum * Len(recent) * SevUnit
        THEN << [type |-> "exploration_increase", priority |-> "high"] >>
        ELSE << >>)
       \o (IF low # {}
           THEN << [type |-> "pattern_strategy_adjustment",
                    low_success_patterns |-> low, priority |-> "medium"] >>
           ELSE << >>)

\* lines 553-561: the adaptation event
adaptation_event(now) ==
    [timestamp |-> now,
     adaptations |-> adaptations_of(learning_metrics, pattern_success_rates),
     system_state |-> [total_experiences |-> Len(learning_history),
                       knowledge_base_size |-> Len(knowledge_base)]]

\* line 521 slices learning_metrics['confidence_scores']: a list after
\* __init__, a deque after load_learning_state, and a deque takes no slice
\* (TypeError)
adapt_raises == deques.learning_metrics

\* adapt_system_based_on_learning, the part on the ContinuousLearningSystem
AdaptCall ==
    /\ adaptation_events' =
          IF adapt_raises THEN adaptation_events
          ELSE Append(adaptation_events, adaptation_event(clock))
    /\ UNCHANGED << learning_history, experience_database, patterns, pattern_confidence,
                    pattern_success_rates, learning_strategies_performance,
                    meta_patterns, knowledge_base, learning_metrics >>

\* adapt_system_based_on_learning called by itself
AdaptSystem ==
    /\ AdaptCall
    /\ le' = [op |-> "adapt_system_based_on_learning",
              raised |-> IF adapt_raises THEN "TypeError" ELSE "none",
              events_before |-> Len(adaptation_events),
              result |-> adaptation_event(clock)]
    /\ UNCHANGED << orchestrator, clock, calls, coordination, threads, background,
                    hf, probe >>

\* ------------------------------------------------- get_system_health_report

\* strategy_performance of the report: the keys with attempts > 0, each with
\* its rate successes/attempts (a fraction) and its attempts
strategy_performance(rates) ==
    [ k \in { j \in DOMAIN rates : rates[j].attempts > 0 } |->
        [ success_rate |-> [num |-> rates[k].successes, den |-> rates[k].attempts],
          attempts |-> rates[k].attempts ] ]

GetSystemHealthReport ==
    /\ probe' = [op |-> "get_system_health_report",
                 total_failures_handled |-> Len(failure_history),
                 total_healing_attempts |-> Len(healing_history),
                 strategy_performance |-> strategy_performance(healing_success_rates)]
    /\ UNCHANGED << orchestrator, clock, calls, others, hf >>

\* ------------------------------------------------------- direct calls

\* rl_agent.choose_action(state) called on its own; row is the row it reads
ChooseAction(state, draw, rnd) ==
    /\ ~choose_action_raises(epsilon, state, draw)
    /\ probe' = [op |-> "choose_action", state |-> state,
                 row |-> q_table[Wrap(state, n_states)],
                 action |-> choose_action(q_table, epsilon, state, draw, rnd)]
    /\ UNCHANGED << orchestrator, clock, calls, others, hf >>

\* encode_state applied to the two events drawn
EncodeStates ==
    /\ probe.op = "encode_state_args"
    /\ probe' = [op |-> "encode_state", e1 |-> probe.e1, e2 |-> probe.e2,
                 s1 |-> encode_state(probe.e1), s2 |-> encode_state(probe.e2)]
    /\ UNCHANGED << orchestrator, clock, calls, others, hf >>

\* calculate_reward applied to the result and severity drawn
CalculateReward ==
    /\ probe.op = "calculate_reward_args"
    /\ probe' = [op |-> "calculate_reward", healing_result |-> probe.healing_result,
                 failure_severity |-> probe.failure_severity,
                 reward |-> calculate_reward(probe.healing_result, probe.failure_severity)]
    /\ UNCHANGED << orchestrator, clock, calls, others, hf >>

\* ------------------------------------------------------------ input sets

\* np.random.random(): the two ends of [0, 1) at the grain of EpsUnit
Draws == {0, EpsUnit - 1}
NoDraw == {EpsUnit - 1}

\* a FailureEvent with its timestamp, in seconds
EventAt(ft, sev, ts) == [failure_type |-> ft, severity |-> sev, timestamp |-> ts]

\* the events of one instant
Event(ft, sev) == EventAt(ft, sev, 0)

\* ------------------------------------------------------------ Spec

\* Any failures of a type with a shortlist and of the type without one, with
\* a severity inside [0, 1], below it and above it; the executor returns or
\* raises; a health report at any time.
Events == { Event(ft, sev) : ft \in {"CPU_OVERLOAD", "UNKNOWN"}, sev \in {-40, 90, 120} }
RandomActions == {1, 8}

Init == Fresh /\ Alone /\ epsilon = Epsilon0 /\ probe = NoCall

Handle ==
    /\ Len(failure_history) < MaxCalls
    /\ \E e \in Events, draw \in Draws, rnd \in RandomActions, sd \in Draws :
            HandleFailure(e, draw, rnd, sd, 0, EpsUnit - 1)

HandleRaises ==
    /\ Len(failure_history) < MaxCalls
    /\ \E e \in Events, draw \in Draws, rnd \in RandomActions :
            HandleFailureExecutorRaises(e, draw, rnd)

Next == Handle \/ HandleRaises \/ GetSystemHealthReport

Spec == Init /\ [][Next]_vars

\* ------------------------------------------------------------ SpecRepeat

\* The same failure injected again and again, past the cold start.  The agent
\* exploits during the cold start and may explore from the last cold-start
\* call on.
RepeatEvents ==
    { Event(ft, 70) : ft \in {"NETWORK_TIMEOUT", "API_RATE_LIMIT", "UNKNOWN"} }
RepeatRandomActions == {2, 6}

HandleRepeat ==
    /\ Len(failure_history) < MaxCallsRepeat
    /\ \E e \in RepeatEvents, rnd \in RepeatRandomActions, sd \in Draws,
          draw \in (IF Len(failure_history) + 2 >= ColdStartFailures THEN Draws ELSE NoDraw) :
            /\ e = (IF failure_history = << >> THEN e ELSE failure_history[1])
            /\ HandleFailure(e, draw, rnd, sd, 0, EpsUnit - 1)

NextRepeat == HandleRepeat

SpecRepeat == Init /\ [][NextRepeat]_vars

\* ------------------------------------------------------------ SpecCodec

\* encode_state on pairs of events with a severity in [0, 1]: the bucket
\* limits, their neighbours and the middle of each bucket
CodecSeverities == { s \in 0..SevUnit : s % 20 \in {0, 1, 10, 19} }
CodecEvents == { Event(ft, sev) : ft \in FailureTypes, sev \in CodecSeverities }

InitCodec ==
    /\ Fresh /\ Alone /\ epsilon = Epsilon0
    /\ probe \in { [op |-> "encode_state_args", e1 |-> e1, e2 |-> e2] :
                     e1 \in CodecEvents, e2 \in CodecEvents }

NextCodec == EncodeStates

SpecCodec == InitCodec /\ [][NextCodec]_vars

\* ------------------------------------------------------------ SpecReward

\* calculate_reward on any HealingResult and severity, and the rewards
\* handle_failure computes
RewardDurations == {0, 5 * DurUnit, 150 * DurUnit, 600 * DurUnit}
RewardMetrics ==
    { EmptyMap, [k \in {"cpu_usage"} |-> 50],
      [k \in {"cpu_usage", "memory_usage"} |-> 10 * SevUnit],
      [k \in {"cpu_usage"} |-> -30 * SevUnit] }
RewardSideEffects == { [i \in 1..n |-> "side_effect"] : n \in {0, 1, MaxSideEffects} }
RewardSeverities == {-5 * SevUnit, 0, 50, SevUnit, 10 * SevUnit}
HealingResults ==
    [ success : BOOLEAN, actual_duration : RewardDurations,
      improvement_metrics : RewardMetrics, side_effects : RewardSideEffects ]

InitReward ==
    /\ Fresh /\ Alone /\ epsilon = Epsilon0
    /\ probe \in { [op |-> "calculate_reward_args", healing_result |-> r,
                    failure_severity |-> sev] :
                     r \in HealingResults, sev \in RewardSeverities }

HandleReward ==
    /\ Len(failure_history) < MaxCalls
    /\ \E sd \in Draws, ed \in Draws :
          HandleFailure(Event("CPU_OVERLOAD", SevUnit), EpsUnit - 1, 0, sd, SevUnit, ed)

NextReward == CalculateReward \/ HandleReward

SpecReward == InitReward /\ [][NextReward]_vars

\* ------------------------------------------------------------ SpecEps0

\* An agent configured with epsilon = 0: failures of two severities of one
\* type, and choose_action called on its own at any time.
Eps0Events == { Event("CPU_OVERLOAD", sev) : sev \in {10, 90} }
Eps0States == { encode_state(e) : e \in Eps0Events }

InitEps0 == Fresh /\ Alone /\ epsilon = 0 /\ probe = NoCall

HandleEps0 ==
    /\ Len(failure_history) < MaxCallsEps0
    /\ \E e \in Eps0Events, draw \in Draws, rnd \in RandomActions, sd \in Draws :
          HandleFailure(e, draw, rnd, sd, 0, EpsUnit - 1)

ChooseEps0 ==
    \E state \in Eps0States, draw \in Draws, rnd \in RandomActions :
        ChooseAction(state, draw, rnd)

NextEps0 == HandleEps0 \/ ChooseEps0

SpecEps0 == InitEps0 /\ [][NextEps0]_vars

\* ------------------------------------------------------------ SpecQ

\* The same severe CPU overload again and again, the agent exploiting or
\* exploring THROTTLE_REQUESTS, the executor succeeding or failing.
HandleQ ==
    /\ Len(failure_history) < MaxCallsQ
    /\ \E draw \in Draws, sd \in Draws :
          HandleFailure(Event("CPU_OVERLOAD", SevUnit), draw, 6, sd, SevUnit, EpsUnit - 1)

NextQ == HandleQ

SpecQ == Init /\ [][NextQ]_vars

\* ------------------------------------------------------------ SpecAtomic

\* Calls that return, calls ended by the executor and calls for an event
\* whose severity puts its state outside the Q-table.
AtomicEvents == { Event("CPU_OVERLOAD", 90), Event("CPU_OVERLOAD", -900) }

HandleAtomic ==
    /\ Len(failure_history) < MaxCallsAtomic
    /\ \E e \in AtomicEvents, draw \in Draws, sd \in Draws :
            HandleFailure(e, draw, 6, sd, 0, EpsUnit - 1)

HandleRaisesAtomic ==
    /\ Len(failure_history) < MaxCallsAtomic
    /\ \E e \in AtomicEvents, draw \in Draws :
            HandleFailureExecutorRaises(e, draw, 6)

HandleIndexErrorAtomic ==
    /\ Len(failure_history) < MaxCallsAtomic
    /\ \E e \in AtomicEvents, draw \in Draws, sd \in Draws :
            HandleFailureIndexError(e, draw, 6, sd, 0, EpsUnit - 1)

NextAtomic == HandleAtomic \/ HandleRaisesAtomic \/ HandleIndexErrorAtomic

SpecAtomic == Init /\ [][NextAtomic]_vars

\* ------------------------------------------------------------ SpecThreads

\* Several threads call handle_failure for the same severe CPU overload on
\* one fresh orchestrator, every executor draw either succeeding or failing.
ThreadEvents == { Event("CPU_OVERLOAD", 90) }
ThreadIds == 1..MaxThreads

Begin ==
    /\ Len(threads) < MaxThreads
    /\ \E e \in ThreadEvents : ThreadBegin(e, EpsUnit - 1, 0)
Execute == \E t \in ThreadIds, sd \in Draws : ThreadExecute(t, sd, 0, EpsUnit - 1)
TdError == \E t \in ThreadIds : ThreadTdError(t)
ReadQ == \E t \in ThreadIds : ThreadReadQ(t)
WriteQ == \E t \in ThreadIds : ThreadWriteQ(t)
ReadCount == \E t \in ThreadIds : ThreadReadCount(t)
WriteCount == \E t \in ThreadIds : ThreadWriteCount(t)
ReadAttempts == \E t \in ThreadIds : ThreadReadAttempts(t)
WriteAttempts == \E t \in ThreadIds : ThreadWriteAttempts(t)
ReadSuccesses == \E t \in ThreadIds : ThreadReadSuccesses(t)
WriteSuccesses == \E t \in ThreadIds : ThreadWriteSuccesses(t)
Finish == \E t \in ThreadIds : ThreadFinish(t)

NextThreads ==
    \/ Begin \/ Execute \/ TdError \/ ReadQ \/ WriteQ \/ ReadCount \/ WriteCount
    \/ ReadAttempts \/ WriteAttempts \/ ReadSuccesses \/ WriteSuccesses \/ Finish

SpecThreads == Init /\ [][NextThreads]_vars

\* ------------------------------------------------------------ SpecIds

\* Calls for failures with quick and slow actions, one after the other or
\* with time passing in between.
IdsEvents == { Event("UNKNOWN", 50), Event("CPU_OVERLOAD", 90) }
IdleTimes == { 3, DurUnit }

HandleIds ==
    /\ Len(failure_history) < MaxCallsIds
    /\ \E e \in IdsEvents, draw \in Draws, rnd \in RandomActions, sd \in Draws :
            HandleFailure(e, draw, rnd, sd, 0, EpsUnit - 1)

WaitIds ==
    /\ clock < MaxClock
    /\ \E d \in IdleTimes : Idle(d)

NextIds == HandleIds \/ WaitIds

SpecIds == Init /\ [][NextIds]_vars

\* ---------------------------------------------------------------------
\* SpecRates: calls for two failure types, some completing with either
\* result and some ended by the executor, with reports in between
\* ---------------------------------------------------------------------
RatesEvents == { Event("CPU_OVERLOAD", 90), Event("DATABASE_ERROR", 50) }

HandleRates ==
    /\ Len(failure_history) < MaxCallsRates
    /\ \E e \in RatesEvents, draw \in Draws, sd \in Draws :
            HandleFailure(e, draw, 1, sd, 0, EpsUnit - 1)

HandleRaisesRates ==
    /\ Len(failure_history) < MaxCallsRates
    /\ \E e \in RatesEvents, draw \in Draws :
            HandleFailureExecutorRaises(e, draw, 1)

NextRates == HandleRates \/ HandleRaisesRates \/ GetSystemHealthReport

SpecRates == Init /\ [][NextRates]_vars

\* ------------------------------------------------------------ SpecStore
\* record_experience called directly, with and without a database, the
\* database accepting a write or not.

Connected == [connected |-> TRUE, experiences |-> EmptyMap]

Experience(id, ts, context, action, outcome, confidence) ==
    [ experience_id |-> id, experience_type |-> "healing", timestamp |-> ts,
      context |-> context, action_taken |-> action, outcome |-> outcome,
      confidence_score |-> confidence ]

CpuContext == [k \in {"failure_type", "severity"} |->
                 IF k = "failure_type" THEN Str("cpu_overload") ELSE Num(70)]
\* the context _healing_coordination_loop builds: failure_type is the member
EnumContext == [k \in {"failure_type", "severity"} |->
                  IF k = "failure_type" THEN EnumMember("FailureType.CPU_OVERLOAD")
                  ELSE Num(90)]
LabelContext == [k \in {"failure_type", "severity"} |->
                   IF k = "failure_type" THEN Str("cpu_overload") ELSE Str("high")]
Succeeded == [k \in {"success"} |-> Bool(TRUE)]
Failed == [k \in {"success"} |-> Bool(FALSE)]

StoreExperiences ==
    { Experience("exp_a", "datetime", CpuContext, "scale_up", Succeeded, 80),
      Experience("exp_a", "datetime", CpuContext, "restart_service", Failed, 30),
      Experience("exp_b", "datetime", EnumContext, "scale_up", Succeeded, 80),
      Experience("exp_c", "datetime", LabelContext, "scale_up", Succeeded, 80),
      Experience("exp_c", "str", CpuContext, "clear_cache", Failed, 30) }

InitStore ==
    /\ Fresh /\ epsilon = Epsilon0 /\ probe = NoCall
    /\ clock = 0 /\ calls = NoCalls /\ healing_queue = << >> /\ threads = NoThreads
    /\ ml_healing_history = << >>
    /\ FreshLearning /\ Quiet
    /\ experience_database \in { NoDatabase, Connected }

RecordStore ==
    /\ calls.record_experience < MaxExperiences
    /\ \E experience \in StoreExperiences, db_ok \in BOOLEAN :
          RecordExperience(experience, db_ok)

NextStore == RecordStore

SpecStore == InitStore /\ [][NextStore]_vars

\* ------------------------------------------------------------ SpecRecommend
\* record_experience and get_recommendations called directly: experiences
\* of one failure type, the k-th call recording either the scenario's
\* experience (scale_up at severity 0.7, succeeded) or the k-th variant, an
\* action at a severity, succeeded or failed.

Variants == << [action |-> "scale_up", severity |-> 90],
              [action |-> "scale_up", severity |-> 30],
              [action |-> "restart_service", severity |-> 70],
              [action |-> "restart_service", severity |-> 90],
              [action |-> "restart_service", severity |-> 30],
              [action |-> "clear_cache", severity |-> 70],
              [action |-> "clear_cache", severity |-> 90],
              [action |-> "clear_cache", severity |-> 30] >>

VariantAt(k) == Variants[((k - 1) % Len(Variants)) + 1]

CpuContextAt(severity) ==
    [k \in {"failure_type", "severity"} |->
        IF k = "failure_type" THEN Str("cpu_overload") ELSE Num(severity)]

ExperienceId(k) == "exp_" \o ToString(k)

RecommendExperiences(k) ==
    { Experience(ExperienceId(k), "datetime", CpuContext, "scale_up", Succeeded, 80),
      Experience(ExperienceId(k), "datetime", CpuContextAt(VariantAt(k).severity),
                 VariantAt(k).action, Succeeded, 80),
      Experience(ExperienceId(k), "datetime", CpuContextAt(VariantAt(k).severity),
                 VariantAt(k).action, Failed, 30) }

RecommendContexts ==
    { [k \in {"failure_type"} |-> Str("cpu_overload")],
      [k \in {"failure_type"} |-> Str("memory_leak")] }

RecordRecommend ==
    /\ calls.record_experience < MaxRecords
    /\ \E experience \in RecommendExperiences(calls.record_experience + 1) :
          RecordExperience(experience, TRUE)

Recommend == \E context \in RecommendContexts : GetRecommendations(context)

NextRecommend == RecordRecommend \/ Recommend

SpecRecommend == Init /\ [][NextRecommend]_vars

\* ------------------------------------------------------------ SpecDecay
\* the learning loop's decay ticks between record_experience calls

DecayExperiences ==
    { Experience("exp_a", "datetime", CpuContext, "scale_up", Succeeded, 80),
      Experience("exp_b", "datetime", CpuContext, "restart_service", Succeeded, 80) }

RecordDecay ==
    /\ calls.record_experience < MaxDecayRecords
    /\ \E experience \in DecayExperiences : RecordExperience(experience, TRUE)

NextDecay == RecordDecay \/ DecayPatternConfidences

SpecDecay == Init /\ [][NextDecay]_vars

\* ------------------------------------------------------------ SpecLoop
\* handle_failure reached through the healing queue and its loop, and called
\* directly; the executor returns or raises; a direct call with a severity
\* whose state is outside the Q-table.

LoopEvents == { Event("CPU_OVERLOAD", 90), Event("UNKNOWN", 50) }

Detect ==
    /\ Len(failure_history) + Len(healing_queue) < MaxLoopCalls
    /\ \E e \in LoopEvents : Enqueue(e)

LoopPass ==
    \E draw \in Draws, sd \in Draws, db_ok \in BOOLEAN :
        HealingLoopPass(draw, 8, sd, 0, EpsUnit - 1, db_ok)

LoopPassRaises == \E draw \in Draws : HealingLoopPassRaises(draw, 8)

HandleLoop ==
    /\ Len(failure_history) + Len(healing_queue) < MaxLoopCalls
    /\ \E e \in LoopEvents, draw \in Draws, sd \in Draws :
          HandleFailure(e, draw, 8, sd, 0, EpsUnit - 1)

HandleLoopIndexError ==
    /\ Len(failure_history) + Len(healing_queue) < MaxLoopCalls
    /\ \E draw \in Draws, sd \in Draws :
          HandleFailureIndexError(Event("CPU_OVERLOAD", -900), draw, 8, sd, 0, EpsUnit - 1)

NextLoop == Detect \/ LoopPass \/ LoopPassRaises \/ HandleLoop \/ HandleLoopIndexError

SpecLoop == InitStore /\ [][NextLoop]_vars

\* ------------------------------------------------------------ SpecLearn
\* one pattern learned past the 10 occurrences at which its confidence
\* saturates, with decay ticks in between

LearnExperiences ==
    { Experience("exp_a", "datetime", CpuContext, "scale_up", Succeeded, 80) }

RecordLearn ==
    /\ calls.record_experience < MaxLearnRecords
    /\ \E experience \in LearnExperiences : RecordExperience(experience, TRUE)

NextLearn == RecordLearn \/ DecayPatternConfidences

SpecLearn == Init /\ [][NextLearn]_vars

\* ------------------------------------------------------------ claims

\* a step of handle_failure, which always appends to failure_history
IsHandleStep == Len(failure_history') = Len(failure_history) + 1
Handled == hf.op = "handle_failure"
Returned == Handled /\ hf.outcome = "returned"

\* C1, as claimed: in each of the first 10 calls to handle_failure on a fresh
\* orchestrator the action of the response is the action choose_action
\* returned, in the shortlist or not.  (The call number is the length of
\* failure_history once the call has appended its event.)
C1_ColdStartFirstTen ==
    (Handled /\ hf.history_len <= ColdStartFailures)
        => hf.response.action = hf.suggested_action

\* the rate successes/attempts of an action, zero attempts counting as 0,
\* as a fraction with a positive denominator
RateOf(rates, failure_type, a) ==
    LET d == Get(rates, << failure_type, a >>, ZeroRate)
    IN IF d.attempts > 0 THEN [num |-> d.successes, den |-> d.attempts]
       ELSE [num |-> 0, den |-> 1]
RateLess(x, y) == x.num * y.den < y.num * x.den

\* chosen is the first action of the shortlist among those of the highest rate
IsBestShortlisted(rates, failure_type, actions, chosen) ==
    \E i \in DOMAIN actions :
        /\ actions[i] = chosen
        /\ \A j \in DOMAIN actions :
               ~RateLess(RateOf(rates, failure_type, chosen),
                         RateOf(rates, failure_type, actions[j]))
        /\ \A j \in 1..(i - 1) :
               RateLess(RateOf(rates, failure_type, actions[j]),
                        RateOf(rates, failure_type, chosen))

\* C2: when the suggestion is not in the shortlist and the cold start is
\* over, the response takes the shortlisted action of the highest
\* successes/attempts as the counters stood before the call (zero attempts
\* counting as rate 0), the first in the shortlist among equal rates.
C2_BestShortlisted ==
    [][ (IsHandleStep
         /\ hf'.history_len >= ColdStartFailures
         /\ hf'.suggested_action \notin SeqToSet(hf'.fallback_actions))
        => IsBestShortlisted(healing_success_rates, hf'.failure_event.failure_type,
                             hf'.fallback_actions, hf'.response.action) ]_vars

\* C2 witness: past the cold start, a suggestion outside the shortlist is
\* replaced by a shortlisted action that is not the first of the shortlist
C2_Witness ==
    /\ Returned
    /\ hf.history_len >= ColdStartFailures
    /\ hf.suggested_action \notin SeqToSet(hf.fallback_actions)
    /\ hf.response.action \in SeqToSet(hf.fallback_actions)
    /\ hf.response.action # hf.fallback_actions[1]

Bucket(sev) ==
    CHOOSE b \in 0..(SeverityLevels - 1) :
        \/ b * SevUnit <= sev * SeverityLevels /\ sev * SeverityLevels < (b + 1) * SevUnit
        \/ b = SeverityLevels - 1 /\ sev = SevUnit
TypeIndex(ft) == CHOOSE i \in 0..(Len(FailureType) - 1) : FailureType[i + 1] = ft

\* C4: for a severity in [0, 1] encode_state is index(failure_type)*5 +
\* min(4, floor(severity*5)), within [0, 40); two events get the same state
\* exactly when they have the same failure type and severity bucket; severity
\* 1.0 is in bucket 4 of its own failure type.
C4_EncodeState ==
    probe.op = "encode_state" =>
        /\ probe.s1 = TypeIndex(probe.e1.failure_type) * 5
                        + Min(4, (probe.e1.severity * 5) \div SevUnit)
        /\ probe.s1 \in 0..39
        /\ (probe.s1 = probe.s2) <=>
               /\ probe.e1.failure_type = probe.e2.failure_type
               /\ Bucket(probe.e1.severity) = Bucket(probe.e2.severity)
        /\ probe.e1.severity = SevUnit =>
               probe.s1 = TypeIndex(probe.e1.failure_type) * 5 + 4

\* C4 witness: severity 1.0 shares the state of severity 0.8 of its own type
C4_Witness ==
    /\ probe.op = "encode_state"
    /\ probe.e1.severity = SevUnit
    /\ probe.e2.severity * 10 = 8 * SevUnit
    /\ probe.e1.failure_type = "UNKNOWN"
    /\ probe.s1 = probe.s2
    /\ probe.s1 = n_states - 1

\* the severity clamped to [0, 1]
Clamp(sev) == Max(0, Min(SevUnit, sev))

\* C5, as claimed: whatever the severity of the event, handle_failure buckets
\* the severity clamped to [0, 1], so the state index it passes to
\* choose_action and update_q_value is in [0, 40) and the action index in
\* [0, 9).
C5_ClampedIndices ==
    Handled =>
        /\ hf.state = TypeIndex(hf.failure_event.failure_type) * 5
                        + Bucket(Clamp(hf.failure_event.severity))
        /\ hf.state \in 0..(n_states - 1)
        /\ hf.action_idx \in 0..(n_actions - 1)
        /\ hf.outcome = "returned" =>
               hf.next_state \in 0..(n_states - 1) /\ hf.action \in 0..(n_actions - 1)

\* a is the lowest index among those holding the maximum of the row
IsLowestArgMax(row, a) ==
    /\ \A b \in DOMAIN row : row[b] <= row[a]
    /\ \A b \in DOMAIN row : b < a => row[b] < row[a]

\* C6: with epsilon = 0, choose_action(state) returns the lowest index among
\* the maximal Q-values of the row of that state, and a call that finds the
\* row as the previous call on that state read it returns the same action.
C6_DeterministicArgMax ==
    [][ (probe'.op = "choose_action" /\ UNCHANGED << q_table, failure_history >>)
        => /\ IsLowestArgMax(q_table[probe'.state], probe'.action)
           /\ (probe.op = "choose_action" /\ probe.state = probe'.state
               /\ probe.row = q_table[probe'.state])
              => probe'.action = probe.action ]_vars

\* C6 witness: the maximum of the row is held by several actions, the first
\* of which is not action 0, and choose_action returns that first one
C6_Witness ==
    /\ probe.op = "choose_action"
    /\ epsilon = 0
    /\ probe.action > 0
    /\ \E b \in DOMAIN probe.row : b > probe.action /\ probe.row[b] = probe.row[probe.action]

\* two successive handle_failure calls with the same event, the same action
\* and the same result: a sequence for one (state, action) with its inputs
\* held constant
SameAgain ==
    /\ IsHandleStep
    /\ hf.op = "handle_failure" /\ hf.outcome = "returned"
    /\ hf'.outcome = "returned"
    /\ hf'.failure_event = hf.failure_event
    /\ hf'.action = hf.action
    /\ hf'.result = hf.result

\* C7, as claimed: in a sequence of successful outcomes for the same
\* (state, action) with the other inputs held constant every update strictly
\* increases Q[state][action], and in a sequence of failures every update
\* strictly decreases it, from any reachable Q-table.
C7_SuccessRaisesFailureLowers ==
    [][ SameAgain =>
          /\ (hf.result.success => hf.q_after > hf.q_before /\ hf'.q_after > hf'.q_before)
          /\ (~hf.result.success => hf.q_after < hf.q_before /\ hf'.q_after < hf'.q_before)
      ]_vars

\* C7, amended: an update moves Q[state][action] toward the TD target
\* reward + gamma * max_a Q[state][a] and never past it: Q does not fall when
\* the target is above it and does not rise when the target is below it, and
\* it moves strictly when a learning-rate share of the gap is at least one
\* unit of the arithmetic.
C7_TowardTarget ==
    Returned =>
        LET gap == hf.td_target - hf.q_before
            step == hf.q_after - hf.q_before
        IN /\ hf.q_after = q_table[Wrap(hf.state, n_states)][hf.action]
           /\ gap >= 0 => step >= 0 /\ step <= gap
           /\ gap <= 0 => step <= 0 /\ step >= gap
           /\ gap * LearningRateNum >= LearningRateDen => step > 0
           /\ -gap * LearningRateNum >= LearningRateDen => step < 0

\* C7 witness: a failed healing raises the Q-value of its action, the row
\* holding a higher value for another action
C7_Witness ==
    /\ Returned
    /\ ~hf.result.success
    /\ hf.reward < 0
    /\ hf.q_after > hf.q_before

\* C8: calculate_reward returns a value in [-2, 2] for every HealingResult
\* and severity, and so does every reward handle_failure feeds to
\* update_q_value.
C8_RewardBounds ==
    /\ probe.op = "calculate_reward" =>
           probe.reward >= -2 * Scale /\ probe.reward <= 2 * Scale
    /\ Returned => hf.reward >= -2 * Scale /\ hf.reward <= 2 * Scale

\* C8 witness: the terms of the reward add up to more than 2 and the reward
\* returned is 2
C8_Witness ==
    /\ probe.op = "calculate_reward"
    /\ raw_reward(probe.healing_result, probe.failure_severity) > 2 * Scale
    /\ probe.reward = 2 * Scale

\* the completed calls that chose action a for failure type ft, and those of
\* them that succeeded, as healing_history records them
Attempts(ft, a) ==
    { i \in DOMAIN healing_history :
        /\ healing_history[i].failure_event.failure_type = ft
        /\ healing_history[i].healing_response.action = a }
Successes(ft, a) == { i \in Attempts(ft, a) : healing_history[i].healing_result.success }

\* C9: for every (failure type, action) the stored attempts are the number of
\* completed calls that chose the action for the type and the stored
\* successes the number of those that succeeded; a report gives each pair
\* with attempts the rate successes/attempts exactly (1.0 when all
\* succeeded) and gives no rate to a pair without attempts.
C9_SuccessRates ==
    Len(healing_history) < HistoryMaxLen =>
        /\ \A ft \in FailureTypes, a \in HealingActions :
               LET d == Get(healing_success_rates, << ft, a >>, ZeroRate)
               IN /\ d.attempts = Cardinality(Attempts(ft, a))
                  /\ d.successes = Cardinality(Successes(ft, a))
                  /\ d.successes <= d.attempts
        /\ (probe.op = "get_system_health_report"
            /\ probe.total_failures_handled = Len(failure_history))
           => /\ DOMAIN probe.strategy_performance =
                    { k \in FailureTypes \X HealingActions : Attempts(k[1], k[2]) # {} }
              /\ \A k \in DOMAIN probe.strategy_performance :
                    LET r == probe.strategy_performance[k].success_rate
                    IN /\ r.den > 0
                       /\ r.num * Cardinality(Attempts(k[1], k[2]))
                            = Cardinality(Successes(k[1], k[2])) * r.den
                       /\ Successes(k[1], k[2]) = Attempts(k[1], k[2]) => r.num = r.den

\* C9 witness: a report taken after two calls chose the same action for the
\* same failure type, one of them succeeding, while a pair read by a call
\* that did not complete has no attempts and no rate
C9_Witness ==
    /\ probe.op = "get_system_health_report"
    /\ probe.total_failures_handled = Len(failure_history)
    /\ \E k \in DOMAIN probe.strategy_performance :
           /\ probe.strategy_performance[k].attempts = 2
           /\ probe.strategy_performance[k].success_rate = [num |-> 1, den |-> 2]
    /\ \E k \in DOMAIN healing_success_rates :
           /\ healing_success_rates[k].attempts = 0
           /\ k \notin DOMAIN probe.strategy_performance

\* C10, as claimed: handle_failure always returns a summary; when the
\* executor raises, the summary has success = false and no improvement
\* metrics, and no exception reaches the caller.
C10_AlwaysSummary ==
    Handled =>
        /\ hf.outcome = "returned"
        /\ hf.summary.failure_handled

\* the value of a (failure type, action) counter, zero when never written
CounterOf(rates, key) == Get(rates, key, ZeroRate)

\* the largest Q-value of a row
RowMax(row) == CHOOSE m \in { row[a] : a \in DOMAIN row } : \A a \in DOMAIN row : row[a] <= m

\* C11: the learning updates of a handle_failure call are all-or-nothing:
\* when the call returns, the Q-table cell of its (state, action) took one TD
\* update, its visit count grew by one and the counters of its (failure
\* type, action) took one attempt (and one success when the result
\* succeeded), everything else in them unchanged; when the call ended with
\* an error, the Q-table, the visit counts and every counter are as before.
C11_AllOrNothing ==
    [][ IsHandleStep =>
          IF hf'.outcome = "returned"
          THEN LET s == hf'.state % n_states
                   a == hf'.action
                   key == << hf'.failure_event.failure_type, hf'.response.action >>
                   target == hf'.reward
                               + TruncDiv(DiscountNum * RowMax(q_table[s]), DiscountDen)
               IN /\ q_table' = [q_table EXCEPT ![s][a] =
                          @ + TruncDiv(LearningRateNum * (target - @), LearningRateDen)]
                  /\ state_action_counts' = [state_action_counts EXCEPT ![s][a] = @ + 1]
                  /\ \A k \in FailureTypes \X HealingActions :
                        CounterOf(healing_success_rates', k) =
                          IF k = key
                          THEN [successes |-> CounterOf(healing_success_rates, k).successes
                                    + (IF hf'.result.success THEN 1 ELSE 0),
                                attempts |-> CounterOf(healing_success_rates, k).attempts + 1]
                          ELSE CounterOf(healing_success_rates, k)
          ELSE /\ q_table' = q_table
               /\ state_action_counts' = state_action_counts
               /\ \A k \in FailureTypes \X HealingActions :
                     CounterOf(healing_success_rates', k) = CounterOf(healing_success_rates, k)
      ]_vars

\* C11 witness: after a call that returned and changed the Q-table, a call
\* executed its action, recorded it in healing_history and then ended with
\* an error in update_q_value
C11_Witness ==
    /\ hf.op = "handle_failure"
    /\ hf.outcome = "raised"
    /\ "raised_in" \in DOMAIN hf
    /\ hf.raised_in = "update_q_value"
    /\ Len(healing_history) >= 2
    /\ \E s \in DOMAIN q_table : \E a \in DOMAIN q_table[s] :
           q_table[s][a] # 0 /\ state_action_counts[s][a] = 1

\* the Q-tables that the TD updates of a set of calls leave when applied one
\* after the other, in every order
RECURSIVE SerialResults(_, _)
SerialResults(q, ts) ==
    IF ts = {} THEN {q}
    ELSE UNION { SerialResults(update_q_value(q, threads[t].state, threads[t].action,
                                              threads[t].reward, threads[t].state),
                               ts \ {t}) : t \in ts }

AllReturned == threads # << >> /\ \A t \in DOMAIN threads : threads[t].pc = "returned"
ZeroTable == [s \in 0..(n_states - 1) |-> [a \in 0..(n_actions - 1) |-> 0]]

\* C12, as claimed: when handle_failure calls run concurrently on a fresh
\* orchestrator and all n of them have returned, every visit count equals the
\* number of calls that updated that cell, the attempts of every (failure
\* type, action) the number of calls that chose it, its successes the number
\* of those that succeeded, and the Q-table is what the n TD updates leave
\* in some serial order.
C12_WritesSerialized ==
    AllReturned =>
        /\ \A s \in DOMAIN state_action_counts : \A a \in DOMAIN state_action_counts[s] :
              state_action_counts[s][a] =
                Cardinality({ t \in DOMAIN threads :
                    Wrap(threads[t].state, n_states) = s /\ threads[t].action = a })
        /\ \A k \in FailureTypes \X HealingActions :
              /\ Get(healing_success_rates, k, ZeroRate).attempts =
                    Cardinality({ t \in DOMAIN threads : StrategyKey(t) = k })
              /\ Get(healing_success_rates, k, ZeroRate).successes =
                    Cardinality({ t \in DOMAIN threads :
                        StrategyKey(t) = k /\ threads[t].result.success })
        /\ q_table \in SerialResults(ZeroTable, DOMAIN threads)

\* C13, as claimed: every HealingResult carries the response_id of the
\* HealingResponse it was produced for, one result per response, and the
\* response_ids of all responses generated are pairwise distinct, also when
\* two of them are generated within the same clock second.
C13_ResponseIdsDistinct ==
    Len(healing_history) < HistoryMaxLen =>
        /\ \A i \in DOMAIN healing_history :
              healing_history[i].healing_result.response_id
                = healing_history[i].healing_response.response_id
        /\ \A i \in DOMAIN healing_history : \A j \in DOMAIN healing_history :
              i # j => healing_history[i].healing_response.response_id
                         # healing_history[j].healing_response.response_id

\* C15 (as stated): after any sequence of record_experience calls the store
\* holds a row for every experience_id recorded, and that row is the most
\* recently recorded experience with that id.
LastWithId(id) ==
    LET i == CHOOSE i \in DOMAIN learning_history :
                 /\ learning_history[i].experience_id = id
                 /\ \A j \in DOMAIN learning_history :
                        learning_history[j].experience_id = id => j <= i
    IN learning_history[i]

C15_RowIsMostRecent ==
    \A i \in DOMAIN learning_history :
        LET id == learning_history[i].experience_id
        IN /\ id \in DOMAIN experience_database.experiences
           /\ experience_database.experiences[id] = experience_row(LastWithId(id))

\* C15 (amended): a record_experience call whose write reaches the store
\* leaves the row of its experience_id equal to the experience just recorded
\* and every other row as it was; a call with no store, or whose write fails,
\* leaves the store as it was; so the store holds at most one row per
\* experience_id, the most recent experience with that id whose write
\* succeeded, and no row for an id that was never recorded.
C15_UpsertOfWrittenOnes ==
    [][ calls'.record_experience = calls.record_experience + 1 =>
          LET e == le'.experience
              rows == experience_database.experiences
              rows_after == experience_database'.experiences
          IN /\ le'.stored =>
                   /\ DOMAIN rows_after = DOMAIN rows \cup {e.experience_id}
                   /\ rows_after[e.experience_id] = experience_row(e)
                   /\ \A id \in DOMAIN rows : id # e.experience_id => rows_after[id] = rows[id]
             /\ ~le'.stored => rows_after = rows
             /\ \A id \in DOMAIN rows_after :
                   \E i \in DOMAIN learning_history' :
                       /\ learning_history'[i].experience_id = id
                       /\ experience_row(learning_history'[i]) = rows_after[id] ]_vars

\* a replayed id overwrote the row written by an earlier call
C15_Witness ==
    /\ le.op = "record_experience"
    /\ le.stored
    /\ experience_database.experiences[le.experience.experience_id]
          = experience_row(le.experience)
    /\ \E i \in 1..(Len(learning_history) - 1) :
          /\ learning_history[i].experience_id = le.experience.experience_id
          /\ experience_row(learning_history[i]) # experience_row(le.experience)
    /\ Cardinality(DOMAIN experience_database.experiences) = 1

\* C17: a record_experience call returns experience_recorded = true with the
\* id of the experience, whatever the store did; the experience is the last
\* of learning_history and of the ids of its knowledge-base entry; a strategy
\* that raised is an error entry in learning_results and the other strategy
\* has learned: every call is counted by the meta strategy, and every
\* experience whose pattern key can be built is in its pattern.
PatternSizes == [i \in DOMAIN patterns |-> Len(patterns[i].value)]
MetaAttempts == [i \in DOMAIN learning_strategies_performance |->
                   learning_strategies_performance[i].value.attempts]
KnowledgeSizes == [i \in DOMAIN knowledge_base |-> Len(knowledge_base[i].value.experiences)]
HasKey(experience) == ~pattern_key_raises(experience)

C17_StoreAndStrategyFailuresContained ==
    le.op = "record_experience" =>
        LET e == le.experience
            results == le.result.learning_results
            knowledge == OGet(knowledge_base, << e.experience_type, e.action_taken >>,
                              NewKnowledge)
        IN /\ le.result.experience_recorded
           /\ le.result.experience_id = e.experience_id
           /\ Len(learning_history) = calls.record_experience
           /\ learning_history[Len(learning_history)] = e
           /\ knowledge.experiences # << >>
           /\ knowledge.experiences[Len(knowledge.experiences)] = e.experience_id
           /\ SumSeq(KnowledgeSizes) = calls.record_experience
           /\ Len(learning_metrics) = calls.record_experience
           /\ SumSeq(MetaAttempts) = calls.record_experience
           /\ SumSeq(PatternSizes) = Len(SelectSeq(learning_history, HasKey))
           /\ pattern_key_raises(e) <=> "error" \in DOMAIN results.pattern_based
           /\ meta_raises(e) <=> "error" \in DOMAIN results.meta_learning
           /\ ~pattern_key_raises(e) =>
                 LET experiences == OGet(patterns, extract_pattern_key(e), << >>)
                 IN /\ experiences # << >>
                    /\ experiences[Len(experiences)] = e
                    /\ results.pattern_based.pattern_frequency = Len(experiences)

\* the store failed and the pattern strategy raised in the same call, after
\* a call in which the store was written
C17_Witness ==
    /\ le.op = "record_experience"
    /\ experience_database.connected
    /\ experience_database.experiences # EmptyMap
    /\ ~le.stored
    /\ "error" \in DOMAIN le.result.learning_results.pattern_based
    /\ "error" \notin DOMAIN le.result.learning_results.meta_learning
    /\ le.result.experience_recorded

\* C18: get_recommendations returns at most 10 records, their products
\* confidence x success_rate non-increasing from first to last, and every
\* recommendation a strategy or the knowledge base has for the context that
\* is not returned has a product no larger than the last one returned.
Candidates(context) ==
    pattern_candidates(1, context) \o meta_recommendations
    \o knowledge_base_recommendations(1)

C18_TopTenByProduct ==
    (probe.op = "get_recommendations" /\ probe.recorded = calls.record_experience) =>
        LET recs == probe.recommendations
            all == Candidates(probe.context)
        IN /\ Len(recs) <= RecommendationsTop
           /\ \A i \in 1..(Len(recs) - 1) : FracGE(SortKey(recs[i]), SortKey(recs[i + 1]))
           /\ \A i \in DOMAIN all :
                 (\A j \in DOMAIN recs : recs[j] # all[i]) =>
                     /\ recs # << >>
                     /\ FracGE(SortKey(recs[Len(recs)]), SortKey(all[i]))

\* C19: when every recorded experience has the same failure_type, severity
\* and action_taken and succeeded, get_recommendations for a context naming
\* that failure_type returns a recommendation whose action is that
\* action_taken and whose success_rate is 1.0.
SameSuccessfulExperiences ==
    /\ learning_history # << >>
    /\ \A i \in DOMAIN learning_history :
          /\ learning_history[i].context = learning_history[1].context
          /\ learning_history[i].action_taken = learning_history[1].action_taken
          /\ OutcomeSuccess(learning_history[i])
    /\ {"failure_type", "severity"} \subseteq DOMAIN learning_history[1].context
    /\ IsNum(learning_history[1].context["severity"])

C19_RecommendsTheAction ==
    ( /\ probe.op = "get_recommendations"
      /\ probe.recorded = calls.record_experience
      /\ SameSuccessfulExperiences
      /\ "failure_type" \in DOMAIN probe.context
      /\ probe.context["failure_type"] = learning_history[1].context["failure_type"] )
    => \E i \in DOMAIN probe.recommendations :
          LET rec == probe.recommendations[i]
          IN /\ "action" \in DOMAIN rec
             /\ rec.action = learning_history[1].action_taken
             /\ rec.success_rate.num = rec.success_rate.den
             /\ rec.success_rate.den > 0

\* the spec's case: 5 experiences of cpu_overload at severity 0.7 answered
\* by scale_up, all succeeded, then the recommendations for cpu_overload
C19_Witness ==
    /\ probe.op = "get_recommendations"
    /\ probe.recorded = calls.record_experience
    /\ SameSuccessfulExperiences
    /\ Len(learning_history) = 5
    /\ learning_history[1].action_taken = "scale_up"
    /\ probe.context["failure_type"] = Str("cpu_overload")
    /\ \E i \in DOMAIN probe.recommendations :
          /\ "action" \in DOMAIN probe.recommendations[i]
          /\ probe.recommendations[i].action = "scale_up"
          /\ probe.recommendations[i].success_rate = Frac(5, 5)

\* C20 (as stated): a decay tick leaves the confidence of every pattern
\* strictly below what it was, not negative and at most 1.
C20_TickStrictlyLowers ==
    le.op = "decay_pattern_confidences" =>
        \A k \in DOMAIN pattern_confidence :
            /\ pattern_confidence[k] < le.before[k]
            /\ pattern_confidence[k] >= 0
            /\ pattern_confidence[k] <= ConfUnit

\* C20 (amended): a decay tick never raises the confidence of a pattern,
\* leaves it not negative and at most 1, and strictly lowers it while the
\* decay, confidence * decay_rate, is more than half the spacing of the
\* representable values at that confidence.
C20_TickNeverRaises ==
    le.op = "decay_pattern_confidences" =>
        \A k \in DOMAIN pattern_confidence :
            /\ pattern_confidence[k] <= le.before[k]
            /\ pattern_confidence[k] >= 0
            /\ pattern_confidence[k] <= ConfUnit
            /\ 2 * le.before[k] * PatternDecayNum > PatternDecayDen =>
                   pattern_confidence[k] < le.before[k]

\* one tick lowered a pattern and left another, above zero, where it was
C20_Witness ==
    /\ le.op = "decay_pattern_confidences"
    /\ \E k \in DOMAIN pattern_confidence :
          pattern_confidence[k] < le.before[k]
    /\ \E k \in DOMAIN pattern_confidence :
          /\ pattern_confidence[k] = le.before[k]
          /\ pattern_confidence[k] > 0

\* C14: every handle_failure call that has returned has had exactly one
\* experience recorded for it in the learning system: as many experiences
\* were recorded as calls returned.
C14_OneExperiencePerReturnedCall ==
    calls.record_experience = Len(failure_learning_data)

\* C16: after n record_experience calls learning_history holds the
\* min(n, 10000) most recent experiences, and after n handle_failure calls
\* failure_history and healing_history each hold min(n, 1000) entries, the
\* last of them those of the last call.
C16_MostRecentN ==
    /\ Len(learning_history) = Min(calls.record_experience, LearningHistoryMaxLen)
    /\ le.op = "record_experience" => learning_history[Len(learning_history)] = le.experience
    /\ Len(failure_history) = Min(calls.handle_failure, HistoryMaxLen)
    /\ Len(healing_history) = Min(calls.handle_failure, HistoryMaxLen)
    /\ hf.op = "handle_failure" =>
          failure_history[Len(failure_history)] = hf.failure_event

\* C21: a record_experience call whose pattern key can be built leaves the
\* confidence of that key at min(1.0, 0.1 x the number of experiences
\* recorded for the key), which is at least the confidence the key had just
\* before the call, whatever learning and decay came earlier.
C21_LearnNeverLowers ==
    [][ (calls'.record_experience = calls.record_experience + 1
          /\ ~pattern_key_raises(le'.experience)) =>
          LET k == extract_pattern_key(le'.experience)
              n == Len(OGet(patterns', k, << >>))
          IN /\ n = Len(OGet(patterns, k, << >>)) + 1
             /\ pattern_confidence'[k] = Min(ConfUnit, (n * ConfUnit) \div 10)
             /\ k \in DOMAIN pattern_confidence =>
                   pattern_confidence'[k] >= pattern_confidence[k] ]_vars

\* an experience learned past saturation: more than 10 in the pattern, the
\* confidence back at 1.0
C21_Witness ==
    /\ le.op = "record_experience"
    /\ ~pattern_key_raises(le.experience)
    /\ Len(OGet(patterns, extract_pattern_key(le.experience), << >>)) > 10
    /\ pattern_confidence[extract_pattern_key(le.experience)] = ConfUnit

\* ------------------------------------------------ save_state and load_state

\* the orchestrator object as it stands
Self ==
    [q_table |-> q_table, state_action_counts |-> state_action_counts,
     epsilon |-> epsilon, healing_strategies |-> healing_strategies,
     min_epsilon |-> min_epsilon, failure_history |-> failure_history,
     healing_history |-> healing_history, failure_patterns |-> failure_patterns,
     healing_success_rates |-> healing_success_rates,
     response_times |-> response_times, resource_usage |-> resource_usage,
     failure_learning_data |-> failure_learning_data, deques |-> deques]

\* SelfHealingOrchestrator(): the object __init__ builds
Constructed ==
    [q_table |-> [s \in 0..(n_states - 1) |-> [a \in 0..(n_actions - 1) |-> 0]],
     state_action_counts |-> [s \in 0..(n_states - 1) |-> [a \in 0..(n_actions - 1) |-> 0]],
     epsilon |-> Epsilon0, healing_strategies |-> DefaultStrategies,
     min_epsilon |-> MinEpsilon, failure_history |-> << >>,
     healing_history |-> << >>, failure_patterns |-> EmptyMap,
     healing_success_rates |-> EmptyMap, response_times |-> EmptyMap,
     resource_usage |-> EmptyMap, failure_learning_data |-> << >>,
     deques |-> NoDeques]

\* lines 719-730: the dictionary save_state dumps
save_state(self) ==
    [config |-> [healing_strategies |-> self.healing_strategies,
                 min_epsilon |-> self.min_epsilon],
     rl_agent_q_table |-> self.q_table,
     rl_agent_state_action_counts |-> self.state_action_counts,
     rl_agent_epsilon |-> self.epsilon,
     healing_success_rates |-> self.healing_success_rates,
     response_times |-> self.response_times,
     resource_usage |-> self.resource_usage,
     failure_learning_data |-> self.failure_learning_data]

load_state_keeps_epsilon(self, state_data) ==
    [self EXCEPT
        !.healing_strategies = state_data.config.healing_strategies,
        !.min_epsilon = state_data.config.min_epsilon,
        !.q_table = state_data.rl_agent_q_table,
        !.state_action_counts = state_data.rl_agent_state_action_counts,
        !.healing_success_rates = state_data.healing_success_rates,
        !.response_times = [k \in DOMAIN state_data.response_times |->
                               LastN(state_data.response_times[k], SampleMaxLen)],
        !.resource_usage = [k \in DOMAIN state_data.resource_usage |->
                               LastN(state_data.resource_usage[k], SampleMaxLen)],
        !.failure_learning_data = state_data.failure_learning_data,
        !.deques = [self.deques EXCEPT
                       !.response_times = DOMAIN state_data.response_times,
                       !.resource_usage = DOMAIN state_data.resource_usage]]

\* lines 741-752: what load_state assigns; the two sample tables come back
\* as deque(v, maxlen=100), the histories and failure_patterns are not in
\* the file
load_state(self, state_data) ==
    [self EXCEPT
        !.healing_strategies = state_data.config.healing_strategies,
        !.min_epsilon = state_data.config.min_epsilon,
        !.q_table = state_data.rl_agent_q_table,
        !.state_action_counts = state_data.rl_agent_state_action_counts,
        !.epsilon = state_data.rl_agent_epsilon,
        !.healing_success_rates = state_data.healing_success_rates,
        !.response_times = [k \in DOMAIN state_data.response_times |->
                               LastN(state_data.response_times[k], SampleMaxLen)],
        !.resource_usage = [k \in DOMAIN state_data.resource_usage |->
                               LastN(state_data.resource_usage[k], SampleMaxLen)],
        !.failure_learning_data = state_data.failure_learning_data,
        !.deques = [self.deques EXCEPT
                       !.response_times = DOMAIN state_data.response_times,
                       !.resource_usage = DOMAIN state_data.resource_usage]]

\* save_state(filepath): the file holds the dump; saved_from is the object
\* the dump was made of
SaveState ==
    /\ state_file' = [state_file EXCEPT !.orchestrator =
                         [written |-> TRUE, state_data |-> save_state(Self),
                          saved_from |-> Self]]
    /\ probe' = [op |-> "save_state"]
    /\ UNCHANGED << orchestrator, clock, calls, coordination, threads, learning_system,
                    le, min_epsilon, deques, running, loops, hf >>

\* load_state(filepath) on the orchestrator that saved (fresh = FALSE) or on
\* a newly constructed one that takes its place (fresh = TRUE)
LoadState(fresh) ==
    LET before == IF fresh THEN Constructed ELSE Self
        after == load_state(before, state_file.orchestrator.state_data)
    IN /\ state_file.orchestrator.written
       /\ q_table' = after.q_table
       /\ state_action_counts' = after.state_action_counts
       /\ epsilon' = after.epsilon
       /\ healing_strategies' = after.healing_strategies
       /\ min_epsilon' = after.min_epsilon
       /\ failure_history' = after.failure_history
       /\ healing_history' = after.healing_history
       /\ failure_patterns' = after.failure_patterns
       /\ healing_success_rates' = after.healing_success_rates
       /\ response_times' = after.response_times
       /\ resource_usage' = after.resource_usage
       /\ failure_learning_data' = after.failure_learning_data
       /\ deques' = after.deques
       /\ probe' = [op |-> "load_state", fresh |-> fresh, before |-> before]
       /\ UNCHANGED << clock, calls, coordination, threads, learning_system, le,
                       state_file, running, loops, hf >>

\* decay_epsilon, lines 52-54: max(0.01, epsilon * decay_rate)
decay_epsilon(eps, decay_num) ==
    Max(EpsilonFloor, (eps * decay_num) \div EpsilonDecayDen)

\* rl_agent.decay_epsilon(decay_rate), decay_rate in 1/EpsilonDecayDen
DecayEpsilon(decay_num) ==
    /\ epsilon' = decay_epsilon(epsilon, decay_num)
    /\ probe' = [op |-> "decay_epsilon", before |-> epsilon, decay_rate |-> decay_num]
    /\ UNCHANGED << q_table, state_action_counts, healing_strategies, failure_history,
                    healing_history, failure_patterns, healing_success_rates,
                    response_times, resource_usage, failure_learning_data >>
    /\ UNCHANGED << clock, calls, others, hf >>

\* the ContinuousLearningSystem object as it stands
LearningSelf ==
    [learning_history |-> learning_history, knowledge_base |-> knowledge_base,
     learning_metrics |-> learning_metrics,
     adaptation_events |-> adaptation_events, patterns |-> patterns,
     pattern_confidence |-> pattern_confidence,
     pattern_success_rates |-> pattern_success_rates,
     learning_strategies_performance |-> learning_strategies_performance,
     meta_patterns |-> meta_patterns]

\* save_learning_state, lines 668-694: the dictionary it dumps
save_learning_state(self) ==
    [knowledge_base |-> self.knowledge_base,
     learning_history_sample |-> LastN(self.learning_history, MetricsMaxLen),
     learning_metrics |-> LastN(self.learning_metrics, MetricsMaxLen),
     adaptation_events |-> LastN(self.adaptation_events, AdaptationEventsSaved),
     learning_strategies |->
        [pattern_based |-> [patterns |-> self.patterns,
                            pattern_confidence |-> self.pattern_confidence,
                            pattern_success_rates |-> self.pattern_success_rates],
         meta_learning |-> [learning_strategies_performance |->
                                self.learning_strategies_performance,
                            meta_patterns |-> self.meta_patterns]]]

\* load_learning_state, lines 703-730: learning_history is not restored
load_learning_state(self, state_data) ==
    [self EXCEPT
        !.knowledge_base = state_data.knowledge_base,
        !.learning_metrics = LastN(state_data.learning_metrics, MetricsMaxLen),
        !.adaptation_events = state_data.adaptation_events,
        !.patterns = state_data.learning_strategies.pattern_based.patterns,
        !.pattern_confidence =
            state_data.learning_strategies.pattern_based.pattern_confidence,
        !.pattern_success_rates =
            state_data.learning_strategies.pattern_based.pattern_success_rates,
        !.learning_strategies_performance =
            state_data.learning_strategies.meta_learning.learning_strategies_performance,
        !.meta_patterns = state_data.learning_strategies.meta_learning.meta_patterns]

\* whether the dumped learning_metrics has the key 'confidence_scores': the
\* defaultdict gets it when record_experience appends to it (line 357) or
\* adapt_system_based_on_learning reads it (line 521)
has_confidence_scores(state_data) ==
    state_data.learning_metrics # << >> \/ state_data.adaptation_events # << >>

SaveLearningState ==
    /\ state_file' = [state_file EXCEPT !.learning =
                         [written |-> TRUE, state_data |-> save_learning_state(LearningSelf),
                          saved_from |-> LearningSelf]]
    /\ le' = [op |-> "save_learning_state"]
    /\ UNCHANGED << learning_history, experience_database, patterns, pattern_confidence,
                    pattern_success_rates, learning_strategies_performance,
                    meta_patterns, knowledge_base, learning_metrics,
                    adaptation_events >>
    /\ UNCHANGED << orchestrator, clock, calls, coordination, threads, min_epsilon,
                    deques, running, loops, hf, probe >>

LoadLearningState ==
    LET after == load_learning_state(LearningSelf, state_file.learning.state_data)
    IN /\ state_file.learning.written
       /\ knowledge_base' = after.knowledge_base
       /\ learning_metrics' = after.learning_metrics
       /\ adaptation_events' = after.adaptation_events
       /\ patterns' = after.patterns
       /\ pattern_confidence' = after.pattern_confidence
       /\ pattern_success_rates' = after.pattern_success_rates
       /\ learning_strategies_performance' = after.learning_strategies_performance
       /\ meta_patterns' = after.meta_patterns
       /\ deques' = [deques EXCEPT !.learning_metrics =
                        has_confidence_scores(state_file.learning.state_data)]
       /\ le' = [op |-> "load_learning_state", before |-> LearningSelf]
       /\ UNCHANGED << learning_history, experience_database >>
       /\ UNCHANGED << orchestrator, clock, calls, coordination, threads, min_epsilon,
                       state_file, running, loops, hf, probe >>

\* ----------------------------------------------------------- SpecSnapshot
\* calls for one event, the first exploring or exploiting, with an epsilon
\* decay, one save and loads in between

MaxCallsSnapshot == 3
MaxDecaysSnapshot == 1
SnapshotEvent == Event("CPU_OVERLOAD", 90)

HandleSnapshot ==
    /\ calls.handle_failure < MaxCallsSnapshot
    /\ \E draw \in (IF calls.handle_failure < 1 THEN Draws ELSE NoDraw) :
            HandleFailure(SnapshotEvent, draw, 1, 0, 0, EpsUnit - 1)

DecaySnapshot ==
    /\ epsilon > Epsilon0 - MaxDecaysSnapshot
    /\ DecayEpsilon(EpsilonDecayNum)

SaveSnapshot ==
    /\ ~state_file.orchestrator.written
    /\ SaveState

Load == \E fresh \in BOOLEAN : LoadState(fresh)

NextSnapshot == HandleSnapshot \/ DecaySnapshot \/ SaveSnapshot \/ Load

SpecSnapshot == Init /\ [][NextSnapshot]_vars

\* ------------------------------------------------------------ C22 .. C24

\* a step in which load_state ran
Loaded == probe'.op = "load_state" /\ probe' # probe

SavedFrom == state_file.orchestrator.saved_from

\* C22: after save_state and a later load_state the Q-table, the visit counts
\* and epsilon are those of the orchestrator when it was saved, and with
\* epsilon = 0 choose_action returns on every state the action it returned
\* then.
C22_AgentRestored ==
    [][ Loaded =>
          /\ q_table' = SavedFrom.q_table
          /\ state_action_counts' = SavedFrom.state_action_counts
          /\ epsilon' = SavedFrom.epsilon
          /\ \A state \in 0..(n_states - 1), draw \in Draws, rnd \in RandomActions :
                choose_action(q_table', 0, state, draw, rnd)
                    = choose_action(SavedFrom.q_table, 0, state, draw, rnd) ]_vars

\* a load that brought back a learned Q-table, counts and a decayed epsilon
\* over an agent that had moved on from them
C22_Witness ==
    /\ probe.op = "load_state"
    /\ q_table = SavedFrom.q_table /\ q_table # Constructed.q_table
    /\ probe.before.q_table # q_table
    /\ probe.before.state_action_counts # state_action_counts
    /\ probe.before.epsilon # epsilon
    /\ epsilon < Epsilon0

\* ------------------------------------------------------------ SpecSamples
\* A long run of calls for one event, the agent exploiting, so that the
\* sample lists grow past the maxlen load_state gives them; the learning
\* system records, saves and loads before the run, the orchestrator saves
\* late in it and is loaded, in place or into a new object.

MaxCallsSamples == 103
MaxSampleRecords == 1

HandleSamples ==
    /\ calls.handle_failure < MaxCallsSamples
    /\ HandleFailure(SnapshotEvent, EpsUnit - 1, 1, 0, 0, EpsUnit - 1)

SaveSamples ==
    /\ calls.handle_failure >= SampleMaxLen - 1
    /\ ~state_file.orchestrator.written
    /\ SaveState

RecordSamples ==
    /\ calls.handle_failure = 0
    /\ calls.record_experience < MaxSampleRecords
    /\ \E experience \in LearnExperiences : RecordExperience(experience, TRUE)

SaveLearningSamples ==
    /\ calls.handle_failure = 0
    /\ ~state_file.learning.written
    /\ SaveLearningState

LoadLearningSamples == calls.handle_failure = 0 /\ LoadLearningState

NextSamples ==
    HandleSamples \/ SaveSamples \/ Load \/ RecordSamples \/ SaveLearningSamples
        \/ LoadLearningSamples

SpecSamples == Init /\ [][NextSamples]_vars

\* the action handle_failure chooses for an event on the orchestrator self,
\* lines 514-520, with the draws of choose_action
healing_choice(self, failure_event, draw, rnd) ==
    chosen_action(self.healing_success_rates, self.healing_strategies,
        failure_event.failure_type,
        decode_action(choose_action(self.q_table, self.epsilon,
                                    encode_state(failure_event), draw, rnd)),
        Len(DequeAppend(self.failure_history, failure_event, HistoryMaxLen)))

ChoiceEvents == { Event(ft, 90) : ft \in {"CPU_OVERLOAD", "UNKNOWN"} }

\* C23: as claimed, the orchestrator a snapshot was loaded into chooses for
\* the next event, with the same exploration draws, the action the
\* orchestrator chose when the snapshot was taken.
C23_SameChoicesAfterRestore ==
    [][ Loaded =>
          \A e \in ChoiceEvents, draw \in Draws, rnd \in RandomActions :
              healing_choice(Self', e, draw, rnd) = healing_choice(SavedFrom, e, draw, rnd)
      ]_vars

LearningLoaded == le'.op = "load_learning_state" /\ le' # le

LearningSavedFrom == state_file.learning.saved_from

\* C24: as claimed, after a load the success/attempt counters, the
\* response-time and resource-cost samples and the pattern strategy's tables
\* have exactly the content they had when saved, whatever their size.
C24_TablesRestoredExactly ==
    [][ /\ Loaded =>
              /\ healing_success_rates' = SavedFrom.healing_success_rates
              /\ response_times' = SavedFrom.response_times
              /\ resource_usage' = SavedFrom.resource_usage
        /\ LearningLoaded =>
              /\ patterns' = LearningSavedFrom.patterns
              /\ pattern_confidence' = LearningSavedFrom.pattern_confidence
              /\ pattern_success_rates' = LearningSavedFrom.pattern_success_rates
      ]_vars

\* ----------------------------------------------------------- SpecScenario
\* the end-to-end scenario: CPU_OVERLOAD events of severity 0.8 on a fresh
\* orchestrator, with every exploration draw and execution outcome

MaxCallsScenario == 2
ScenarioEvent == Event("CPU_OVERLOAD", 80)

HandleScenario ==
    /\ calls.handle_failure < MaxCallsScenario
    /\ \E draw \in Draws, rnd \in 0..(n_actions - 1), sd \in Draws, side_draw \in Draws :
            HandleFailure(ScenarioEvent, draw, rnd, sd, 0, side_draw)

NextScenario == HandleScenario

SpecScenario == Init /\ [][NextScenario]_vars

\* C25: as claimed, the first handle_failure call on a fresh orchestrator,
\* for a CPU_OVERLOAD event of severity 0.8, returns a summary whose healing
\* action is not NO_ACTION, whose duration is not negative and whose success
\* field is a boolean, whatever the draws.
C25_ScenarioSummary ==
    (hf.op = "handle_failure" /\ calls.handle_failure = 1
        /\ hf.failure_event = ScenarioEvent) =>
        /\ hf.outcome = "returned"
        /\ hf.summary.healing_action # "NO_ACTION"
        /\ hf.summary.duration >= 0
        /\ hf.summary.success \in BOOLEAN

\* ------------------------------------------------------------------- C29

\* the counters of the pair the last call chose, as they were when the
\* response was generated: the call itself added one attempt
AttemptsBefore ==
    LET d == healing_success_rates[<< hf.failure_event.failure_type, hf.response.action >>]
    IN [attempts |-> d.attempts - 1,
        successes |-> d.successes - (IF hf.result.success THEN 1 ELSE 0)]

\* C29: as claimed, the response's success_probability is
\* (base + successes/attempts) / 2 when the chosen pair had at least 5
\* recorded attempts, and base when it had fewer.
C29_BlendsFromFiveAttempts ==
    (hf.op = "handle_failure" /\ hf.outcome = "returned") =>
        LET base == priority_of(hf.failure_event.severity).success_prob
            d == AttemptsBefore
            p == hf.response.success_probability
            claimed == IF d.attempts >= 5
                       THEN Frac(base * d.attempts + EpsUnit * d.successes,
                                 2 * EpsUnit * d.attempts)
                       ELSE Frac(base, EpsUnit)
        IN p.num * claimed.den = claimed.num * p.den

\* ------------------------------------------------------------ SpecEpsilon
\* decay_epsilon called over and over, by the background loop with the
\* configured epsilon_decay or directly with a faster rate, on orchestrators
\* configured with the default min_epsilon or with a higher one

ConfiguredMinEpsilon == {MinEpsilon, 50}
DecayRates == {EpsilonDecayNum, 500}

InitEpsilon ==
    /\ Fresh /\ FreshLearning /\ NothingStarted
    /\ min_epsilon \in ConfiguredMinEpsilon
    /\ experience_database = NoDatabase
    /\ clock = 0 /\ calls = NoCalls /\ healing_queue = << >> /\ threads = NoThreads
    /\ ml_healing_history = << >>
    /\ epsilon = Epsilon0 /\ probe = NoCall

Decay == \E decay_num \in DecayRates : DecayEpsilon(decay_num)

NextEpsilon == Decay

SpecEpsilon == InitEpsilon /\ [][NextEpsilon]_vars

\* C28: as claimed, decay_epsilon(rate) leaves epsilon at
\* max(min_epsilon, epsilon x rate) with min_epsilon the configured value,
\* so epsilon is never below the configured min_epsilon and never zero.
C28_DecayStopsAtConfiguredMinimum ==
    probe.op = "decay_epsilon" =>
        /\ epsilon = Max(min_epsilon, (probe.before * probe.decay_rate) \div EpsilonDecayDen)
        /\ epsilon >= min_epsilon
        /\ epsilon > 0

\* ------------------------------------------------------ _update_strategies

RECURSIVE GCD(_, _)
GCD(a, b) == IF b = 0 THEN a ELSE GCD(b, a % b)

Reduced(x) == LET g == GCD(x.num, x.den) IN Frac(x.num \div g, x.den \div g)

\* np.mean(self.response_times.get(action, [60])) / 60, line 656
mean_minutes(times, action) ==
    LET samples == Get(times, action, << DefaultResponseTime * DurUnit >>)
    IN Reduced(Frac(SumSeq(samples), Len(samples) * DefaultResponseTime * DurUnit))

\* line 659: success_rate * 0.8 + (1 / (1 + avg_response_time / 60)) * 0.2
strategy_score(d, minutes) ==
    Frac(4 * d.successes * (minutes.den + minutes.num) + d.attempts * minutes.den,
         5 * d.attempts * (minutes.den + minutes.num))

\* lines 648-661: the scored actions of a failure type, in the order of the
\* HealingAction enumeration
ScoredFrom(rates, times, failure_type, i, min_attempts) ==
    LET F[j \in i..(Len(HealingAction) + 1)] ==
            IF j > Len(HealingAction) THEN << >>
            ELSE LET d == Get(rates, << failure_type, HealingAction[j] >>, ZeroRate)
                 IN IF d.attempts >= min_attempts
                    THEN << [action |-> HealingAction[j],
                             score |-> strategy_score(d, mean_minutes(times, HealingAction[j]))] >>
                         \o F[j + 1]
                    ELSE F[j + 1]
    IN F[i]

\* best_actions.sort(key=lambda x: x[1], reverse=True): stable
InsertByScore(sorted, x) ==
    LET n == Cardinality({ i \in DOMAIN sorted : FracGE(sorted[i].score, x.score) })
    IN SubSeq(sorted, 1, n) \o << x >> \o SubSeq(sorted, n + 1, Len(sorted))

RECURSIVE SortByScore(_)
SortByScore(q) ==
    IF q = << >> THEN << >>
    ELSE InsertByScore(SortByScore(SubSeq(q, 1, Len(q) - 1)), q[Len(q)])

Actions(q) == [i \in DOMAIN q |-> q[i].action]

update_strategies_any_attempts(rates, times, strategies) ==
    LET scored(ft) == ScoredFrom(rates, times, ft, 1, 1)
        learned == { ft \in FailureTypes : scored(ft) # << >> }
    IN [ft \in DOMAIN strategies \cup learned |->
            IF ft \in learned
            THEN Actions(FirstN(SortByScore(scored(ft)), StrategyTop))
            ELSE strategies[ft]]

\* _update_strategies, lines 646-670: the shortlists it leaves
update_strategies(rates, times, strategies) ==
    LET scored(ft) == ScoredFrom(rates, times, ft, 1, StrategyMinAttempts)
        learned == { ft \in FailureTypes : scored(ft) # << >> }
    IN [ft \in DOMAIN strategies \cup learned |->
            IF ft \in learned
            THEN Actions(FirstN(SortByScore(scored(ft)), StrategyTop))
            ELSE strategies[ft]]

\* the loop reads healing_success_rates[strategy_key] for every pair, which
\* makes the defaultdict hold them all
UpdateStrategies ==
    /\ healing_strategies' =
          update_strategies(healing_success_rates, response_times, healing_strategies)
    /\ healing_success_rates' =
          [k \in DOMAIN healing_success_rates \cup (FailureTypes \X HealingActions) |->
              Get(healing_success_rates, k, ZeroRate)]
    /\ probe' = [op |-> "_update_strategies", before |-> healing_strategies,
                 handled |-> calls.handle_failure]
    /\ UNCHANGED << q_table, state_action_counts, epsilon, failure_history,
                    healing_history, failure_patterns, response_times, resource_usage,
                    failure_learning_data >>
    /\ UNCHANGED << clock, calls, others, hf >>

\* --------------------------------------------------------- SpecStrategies
\* calls for CPU_OVERLOAD events in which the agent explores and draws, five
\* calls at a time, an action outside the shortlist and then the three
\* shortlisted ones, with strategy updates in between

MaxCallsStrategies == 20
StrategyRun == StrategyMinAttempts
StrategySchedule == << 3, 1, 6, 0 >>

ScheduledAction(n) ==
    StrategySchedule[Min(Len(StrategySchedule), ((n - 1) \div StrategyRun) + 1)]

HandleStrategies ==
    /\ calls.handle_failure < MaxCallsStrategies
    /\ \E sd \in (IF calls.handle_failure % StrategyRun = 0 THEN Draws ELSE {0}) :
          HandleFailure(SnapshotEvent, 0, ScheduledAction(calls.handle_failure + 1),
                        sd, 0, EpsUnit - 1)

NextStrategies == HandleStrategies \/ UpdateStrategies

SpecStrategies == Init /\ [][NextStrategies]_vars

\* ------------------------------------------------------------------- C30

StrategiesUpdated == probe'.op = "_update_strategies" /\ probe' # probe

\* the actions of a failure type with at least 5 recorded attempts
Qualifying(failure_type) ==
    { a \in HealingActions :
        Get(healing_success_rates, << failure_type, a >>, ZeroRate).attempts >= 5 }

ScoreOf(failure_type, a) ==
    strategy_score(healing_success_rates[<< failure_type, a >>],
                   mean_minutes(response_times, a))

\* C30: after a strategy update the shortlist of every failure type that has
\* an action with at least 5 attempts is the (at most 3) highest-scoring of
\* those actions, in descending score order, and the shortlist of every
\* other failure type is unchanged.
C30_ShortlistIsTopThree ==
    [][ StrategiesUpdated =>
          \A ft \in FailureTypes :
              IF Qualifying(ft) # {}
              THEN LET shortlist == healing_strategies'[ft]
                   IN /\ Len(shortlist) = Min(3, Cardinality(Qualifying(ft)))
                      /\ SeqToSet(shortlist) \subseteq Qualifying(ft)
                      /\ Cardinality(SeqToSet(shortlist)) = Len(shortlist)
                      /\ \A i, j \in DOMAIN shortlist :
                            i < j => FracGE(ScoreOf(ft, shortlist[i]), ScoreOf(ft, shortlist[j]))
                      /\ \A a \in Qualifying(ft) \ SeqToSet(shortlist) :
                            \A i \in DOMAIN shortlist :
                                FracGE(ScoreOf(ft, shortlist[i]), ScoreOf(ft, a))
              ELSE /\ (ft \in DOMAIN healing_strategies') = (ft \in DOMAIN healing_strategies)
                   /\ ft \in DOMAIN healing_strategies =>
                         healing_strategies'[ft] = healing_strategies[ft]
      ]_vars

\* an update that found four CPU_OVERLOAD actions with 5 attempts, one of
\* them with fewer successes than the others, and changed the shortlist
C30_Witness ==
    /\ probe.op = "_update_strategies"
    /\ probe.handled = calls.handle_failure
    /\ Cardinality(Qualifying("CPU_OVERLOAD")) > 3
    /\ \E a, b \in Qualifying("CPU_OVERLOAD") :
          FracGT(ScoreOf("CPU_OVERLOAD", a), ScoreOf("CPU_OVERLOAD", b))
    /\ healing_strategies["CPU_OVERLOAD"] # probe.before["CPU_OVERLOAD"]
    /\ healing_strategies["MEMORY_LEAK"] = DefaultStrategies["MEMORY_LEAK"]

\* ------------------------------------------------- the background threads
\* loops.threads holds one record per thread started, in the order of the
\* start calls; loops.stop is the stop_orchestrator or
\* stop_continuous_learning call in progress. A thread is at "sleep" (in
\* time.sleep, or started and not yet run), at "decay" (inside the loop over
\* pattern_confidence) or "done". A step of a thread is what it does from the
\* return of time.sleep on: the while self.running test and, when the flag is
\* set, the body of the loop up to the next time.sleep. Computing takes no
\* time: the clock moves only when every thread sleeps or is done.

NoPass == [active |-> FALSE, aborted |-> FALSE]

Thread(owner, target, interval) ==
    [owner |-> owner, target |-> target, at |-> "sleep", wake |-> clock,
     last |-> clock, interval |-> interval, stop_returned |-> FALSE,
     steps_after_stop |-> 0, pass |-> NoPass]

Sleeping(th, seconds) == [th EXCEPT !.at = "sleep", !.wake = clock + seconds * DurUnit]

Ended(th) == [th EXCEPT !.at = "done"]

\* time.sleep has returned, or the thread was just started
Awake(th, target) == th.at = "sleep" /\ clock >= th.wake /\ th.target = target

Stepped(th) ==
    [th EXCEPT !.steps_after_stop = IF th.stop_returned THEN @ + 1 ELSE @]

LoopFrame ==
    UNCHANGED << calls, coordination, threads, le, min_epsilon, state_file, deques,
                 hf, probe >>

LearningTablesFrame ==
    UNCHANGED << learning_history, patterns, pattern_success_rates,
                 learning_strategies_performance, meta_patterns, knowledge_base,
                 learning_metrics, adaptation_events >>

\* start_orchestrator, lines 257-275; interval is
\* config['learning']['retraining_interval'], in seconds
StartOrchestrator(interval) ==
    /\ loops.stop = NoStop
    /\ ~running.orchestrator
    /\ running' = [running EXCEPT !.orchestrator = TRUE]
    /\ loops' = [loops EXCEPT !.threads =
                    @ \o << Thread("orchestrator", "_execute_actions", interval),
                            Thread("orchestrator", "_continuous_learning", interval) >>]
    /\ UNCHANGED << orchestrator, learning_system, clock >>
    /\ LoopFrame

\* start_continuous_learning, lines 309-319
StartContinuousLearning ==
    /\ loops.stop = NoStop
    /\ ~running.learning
    /\ running' = [running EXCEPT !.learning = TRUE]
    /\ loops' = [loops EXCEPT !.threads =
                    Append(@, Thread("learning", "_learning_loop", AdaptationInterval))]
    /\ UNCHANGED << orchestrator, learning_system, clock >>
    /\ LoopFrame

ThreadsOf(owner) ==
    SelectSeq([i \in DOMAIN loops.threads |-> i], LAMBDA i : loops.threads[i].owner = owner)

\* stop_orchestrator, lines 279-284: the flag, then a join of every thread
\* in execution_threads, each with its own timeout
StopOrchestrator ==
    /\ loops.stop = NoStop
    /\ running' = [running EXCEPT !.orchestrator = FALSE]
    /\ loops' = [loops EXCEPT !.stop =
                    [owner |-> "orchestrator", joining |-> ThreadsOf("orchestrator"),
                     deadline |-> clock + JoinTimeout * DurUnit]]
    /\ UNCHANGED << orchestrator, learning_system, clock >>
    /\ LoopFrame

\* stop_continuous_learning, lines 323-325: the flag, then a join of
\* self.learning_thread, the thread of the last start
StopContinuousLearning ==
    /\ loops.stop = NoStop
    /\ running' = [running EXCEPT !.learning = FALSE]
    /\ loops' = [loops EXCEPT !.stop =
                    [owner |-> "learning",
                     joining |-> LastN(ThreadsOf("learning"), 1),
                     deadline |-> clock + JoinTimeout * DurUnit]]
    /\ UNCHANGED << orchestrator, learning_system, clock >>
    /\ LoopFrame

\* thread.join(timeout=5) returns: the thread has ended or the timeout ran out
StopJoin ==
    /\ loops.stop # NoStop
    /\ loops.stop.joining # << >>
    /\ \/ loops.threads[Head(loops.stop.joining)].at = "done"
       \/ clock >= loops.stop.deadline
    /\ loops' = [loops EXCEPT !.stop.joining = Tail(@),
                              !.stop.deadline = clock + JoinTimeout * DurUnit]
    /\ UNCHANGED << orchestrator, learning_system, clock, running >>
    /\ LoopFrame

\* the stop call returns; stop_continuous_learning closes the database first
\* (lines 327-328)
StopReturn ==
    /\ loops.stop # NoStop
    /\ loops.stop.joining = << >>
    /\ loops' = [threads |-> [i \in DOMAIN loops.threads |->
                                 IF loops.threads[i].owner = loops.stop.owner
                                 THEN [loops.threads[i] EXCEPT !.stop_returned = TRUE]
                                 ELSE loops.threads[i]],
                 stop |-> NoStop]
    /\ experience_database' =
          IF loops.stop.owner = "learning"
          THEN [experience_database EXCEPT !.connected = FALSE]
          ELSE experience_database
    /\ LearningTablesFrame
    /\ UNCHANGED << orchestrator, clock, running, pattern_confidence >>
    /\ LoopFrame

\* _execute_actions, lines 576-579: time.sleep(1)
ExecuteActions(i) ==
    /\ Awake(loops.threads[i], "_execute_actions")
    /\ loops' = [loops EXCEPT !.threads[i] =
                    IF running.orchestrator THEN Sleeping(@, ExecutionSleep) ELSE Ended(@)]
    /\ UNCHANGED << orchestrator, learning_system, clock, running >>
    /\ LoopFrame

\* _continuous_learning, lines 589-600: when the retraining interval has
\* passed, _retrain_models (it writes improvement_tracking only),
\* _update_strategies and decay_epsilon; then time.sleep(60)
ContinuousLearning(i) ==
    LET th == loops.threads[i]
        due == running.orchestrator /\ clock - th.last >= th.interval * DurUnit
    IN /\ Awake(th, "_continuous_learning")
       /\ healing_strategies' =
             IF due THEN update_strategies(healing_success_rates, response_times,
                                           healing_strategies)
             ELSE healing_strategies
       /\ healing_success_rates' =
             IF due
             THEN [k \in DOMAIN healing_success_rates \cup (FailureTypes \X HealingActions) |->
                      Get(healing_success_rates, k, ZeroRate)]
             ELSE healing_success_rates
       /\ epsilon' = IF due THEN decay_epsilon(epsilon, EpsilonDecayNum) ELSE epsilon
       /\ loops' = [loops EXCEPT !.threads[i] =
                       IF ~running.orchestrator THEN Ended(th)
                       ELSE Sleeping(IF due THEN [Stepped(th) EXCEPT !.last = clock] ELSE th,
                                     LoopSleep)]
       /\ UNCHANGED << q_table, state_action_counts, failure_history, healing_history,
                       failure_patterns, response_times, resource_usage,
                       failure_learning_data >>
       /\ UNCHANGED << learning_system, clock, running >>
       /\ LoopFrame

\* the keys of pattern_confidence in the order a loop over the dict visits
\* them: the order in which learn_from_experience inserted them
ConfidenceKeys ==
    SelectSeq([i \in DOMAIN patterns |-> patterns[i].key],
              LAMBDA k : k \in DOMAIN pattern_confidence)

\* _learning_loop, lines 572-581: adapt_system_based_on_learning when its
\* interval has passed (it writes adaptation_events only; when it raises, the
\* except clause of lines 586-588 sleeps and the pass does nothing more),
\* _cleanup_old_experiences (no experience is 90 days old) and the start of
\* the loop of _decay_pattern_confidences over the live dict (line 620)
LearningLoop(i) ==
    LET th == loops.threads[i]
        due == clock - th.last >= th.interval * DurUnit
    IN /\ Awake(th, "_learning_loop")
       /\ loops' = [loops EXCEPT !.threads[i] =
                       IF ~running.learning THEN Ended(th)
                       ELSE IF due /\ adapt_raises THEN Sleeping(Stepped(th), LoopSleep)
                       ELSE
                       [Stepped(th) EXCEPT
                           !.at = "decay",
                           !.last = IF due THEN clock ELSE @,
                           !.pass = [active |-> TRUE, aborted |-> FALSE,
                                     size |-> Cardinality(DOMAIN pattern_confidence),
                                     next |-> 1, started |-> ConfidenceKeys,
                                     processed |-> << >>]]]
       /\ IF running.learning /\ due THEN AdaptCall ELSE UNCHANGED learning_system
       /\ UNCHANGED << orchestrator, experience_database, clock, running >>
       /\ LoopFrame

\* one step of for pattern_key in pattern_strategy.pattern_confidence: the
\* dict iterator raises RuntimeError when the dict has changed size since the
\* loop began, which the except clause of _learning_loop answers with
\* time.sleep(60) (lines 586-588)
DecayPass(i) ==
    LET th == loops.threads[i]
        changed == Cardinality(DOMAIN pattern_confidence) # th.pass.size
        finished == th.pass.next > th.pass.size
        k == ConfidenceKeys[th.pass.next]
    IN /\ th.at = "decay"
       /\ pattern_confidence' =
             IF changed \/ finished THEN pattern_confidence
             ELSE [pattern_confidence EXCEPT ![k] = decay_confidence(@)]
       /\ loops' = [loops EXCEPT !.threads[i] =
                       IF changed
                       THEN Sleeping([th EXCEPT !.pass.aborted = TRUE], LoopSleep)
                       ELSE IF finished THEN Sleeping(th, LoopSleep)
                       ELSE [th EXCEPT !.pass.next = @ + 1,
                                       !.pass.processed = Append(@, k)]]
       /\ LearningTablesFrame
       /\ UNCHANGED << orchestrator, experience_database, clock, running >>
       /\ LoopFrame

\* the times at which a sleep or a join timeout ends
Deadlines ==
    { loops.threads[i].wake : i \in { j \in DOMAIN loops.threads :
                                        loops.threads[j].at = "sleep" } }
        \cup (IF loops.stop # NoStop /\ loops.stop.joining # << >>
              THEN { loops.stop.deadline } ELSE {})

Blocked ==
    /\ \A i \in DOMAIN loops.threads :
          \/ loops.threads[i].at = "done"
          \/ loops.threads[i].at = "sleep" /\ loops.threads[i].wake > clock
    /\ loops.stop # NoStop =>
          /\ loops.stop.joining # << >>
          /\ loops.threads[Head(loops.stop.joining)].at # "done"
          /\ loops.stop.deadline > clock

\* time passes up to the next deadline
Pass(limit) ==
    /\ Blocked
    /\ \E t \in Deadlines :
          /\ t > clock /\ t <= limit
          /\ \A u \in Deadlines : u > clock => t <= u
          /\ clock' = t
    /\ UNCHANGED << orchestrator, learning_system, running, loops >>
    /\ LoopFrame

\* ----------------------------------------------------------- SpecShutdown
\* both objects started and stopped while running, the learning system
\* started again, all within the first seconds; their threads running over a
\* little more than one sleep of the loops

MaxOrchestratorStarts == 1
MaxLearningStarts == 2
MaxClockShutdown == 700
MaxClockCalls == 70
ConfiguredIntervals == {RetrainingInterval, LoopSleep}

StartLoops ==
    /\ clock <= MaxClockCalls
    /\ \/ /\ Len(ThreadsOf("orchestrator")) < 2 * MaxOrchestratorStarts
          /\ \E interval \in ConfiguredIntervals : StartOrchestrator(interval)
       \/ /\ Len(ThreadsOf("learning")) < MaxLearningStarts
          /\ StartContinuousLearning

StopLoops ==
    /\ clock <= MaxClockCalls
    /\ \/ running.orchestrator /\ StopOrchestrator
       \/ running.learning /\ StopContinuousLearning

RunLoops ==
    \E i \in DOMAIN loops.threads :
        \/ ExecuteActions(i)
        \/ ContinuousLearning(i)
        \/ LearningLoop(i)
        \/ DecayPass(i)

NextShutdown ==
    \/ StartLoops
    \/ StopLoops
    \/ StopJoin
    \/ StopReturn
    \/ RunLoops
    \/ Pass(MaxClockShutdown)

SpecShutdown == Init /\ [][NextShutdown]_vars

\* ------------------------------------------------------------------- C26

\* C26: as claimed, once stop_orchestrator or stop_continuous_learning has
\* returned, every background thread the object had started has ended, and
\* none of them carries out another retraining, strategy update, epsilon
\* decay, cleanup or confidence decay.
C26_LoopsEndedWhenStopReturns ==
    \A i \in DOMAIN loops.threads :
        loops.threads[i].stop_returned =>
            /\ loops.threads[i].at = "done"
            /\ loops.threads[i].steps_after_stop = 0

\* the same without the first half: no step of a loop after the stop returned
NoStepAfterStop ==
    \A i \in DOMAIN loops.threads : loops.threads[i].steps_after_stop = 0

\* ------------------------------------------------------------ SpecReaders
\* the learning loop running while experiences of three patterns are recorded
\* from the caller's thread

MaxReaderRecords == 3
MaxClockReaders == 1300

ReaderExperiences ==
    { Experience("exp_a", "datetime", CpuContext, "scale_up", Succeeded, 80),
      Experience("exp_b", "datetime", CpuContext, "restart_service", Failed, 30),
      Experience("exp_c", "datetime", CpuContext, "clear_cache", Failed, 30) }

StartReaders ==
    /\ loops.threads = << >>
    /\ StartContinuousLearning

RecordReaders ==
    /\ calls.record_experience < MaxReaderRecords
    /\ \E experience \in ReaderExperiences : RecordExperience(experience, TRUE)

NextReaders == StartReaders \/ RunLoops \/ RecordReaders \/ Pass(MaxClockReaders)

SpecReaders == Init /\ [][NextReaders]_vars

\* C27: as claimed, a confidence-decay pass that runs while record_experience
\* is called is never aborted, and when it ends it has decayed every key that
\* was in pattern_confidence when it began, each exactly once.
C27_ReadersWorkOnSnapshot ==
    \A i \in DOMAIN loops.threads :
        LET th == loops.threads[i]
        IN th.pass.active =>
              /\ ~th.pass.aborted
              /\ th.at # "decay" => th.pass.processed = th.pass.started


\* ------------------------------------------------------- adaptation passes

MaxAdaptRecords == 11
MaxAdapts == 1
FreeAdaptRecords == 2

\* a failed and a succeeded experience of one pattern
LowExperience == Experience("exp_low", "datetime", CpuContext, "restart_service", Failed, 30)
HighExperience ==
    Experience("exp_high", "datetime", CpuContext, "restart_service", Succeeded, 70)

RecordAdapt ==
    /\ calls.record_experience < MaxAdaptRecords
    /\ \E experience \in {LowExperience, HighExperience} :
          /\ experience = HighExperience => calls.record_experience < FreeAdaptRecords
          /\ RecordExperience(experience, TRUE)

Adapt ==
    /\ Len(adaptation_events) < MaxAdapts
    /\ AdaptSystem

SaveLearningAdapt ==
    /\ ~state_file.learning.written
    /\ SaveLearningState

NextAdapt == RecordAdapt \/ Adapt \/ SaveLearningAdapt \/ LoadLearningState

SpecAdapt == Init /\ [][NextAdapt]_vars

\* a step that is a call of adapt_system_based_on_learning
AdaptStep == le'.op = "adapt_system_based_on_learning" /\ le' # le

Flagged(event, type) ==
    \E i \in DOMAIN event.adaptations : event.adaptations[i].type = type

\* C31: as claimed, an adaptation pass that returns flags the low-performing
\* pattern review exactly when some pattern with at least 10 attempts has a
\* success rate below 0.4, and flags the exploration increase exactly when
\* the mean confidence of the last 100 recorded experiences is below 0.5.
C31_FlagsFromTenAttempts ==
    [][AdaptStep /\ le'.raised = "none" =>
          /\ Flagged(le'.result, "pattern_strategy_adjustment") <=>
                \E k \in DOMAIN pattern_success_rates :
                    /\ pattern_success_rates[k].attempts >= 10
                    /\ pattern_success_rates[k].successes * 10
                          < 4 * pattern_success_rates[k].attempts
          /\ Flagged(le'.result, "exploration_increase") <=>
                LET recent == LastN(learning_metrics, 100)
                IN /\ recent # << >>
                   /\ 2 * SumSeq(recent) < Len(recent) * SevUnit]_vars

\* C32: as claimed, every call of adapt_system_based_on_learning appends
\* exactly one adaptation event and leaves the pattern tables, the pattern
\* confidences, the knowledge base, the experience history, the configuration
\* and the agent's epsilon as they were.
C32_AdaptOnlyAppendsOneEvent ==
    [][AdaptStep =>
          /\ Len(adaptation_events') = Len(adaptation_events) + 1
          /\ SubSeq(adaptation_events', 1, Len(adaptation_events)) = adaptation_events
          /\ UNCHANGED << patterns, pattern_success_rates, pattern_confidence,
                          knowledge_base, learning_history, healing_strategies,
                          min_epsilon, epsilon >>]_vars


\* ---------------------------------------------- knowledge entries over time

MaxKnowledgeRecords == 22
FreeKnowledgeRecords == 3

\* the n-th experience recorded, with an ID of its own: every third one
\* succeeded
KnowledgeExperience(n, action) ==
    Experience(<< "exp", n >>, "datetime", CpuContext, action,
               IF n % 3 = 0 THEN Succeeded ELSE Failed,
               IF n % 3 = 0 THEN 80 ELSE 30)

RecordKnowledge ==
    /\ calls.record_experience < MaxKnowledgeRecords
    /\ \E action \in {"restart_service", "scale_up"} :
          /\ action = "scale_up" => calls.record_experience < FreeKnowledgeRecords
          /\ RecordExperience(KnowledgeExperience(calls.record_experience, action), TRUE)

LookKnowledge ==
    /\ \E context \in {CpuContext} : GetRecommendations(context)

NextKnowledge == RecordKnowledge \/ LookKnowledge

SpecKnowledge == Init /\ [][NextKnowledge]_vars

\* the experiences recorded for a (experience_type, action_taken) pair,
\* oldest first
RecordedFor(pair) ==
    SelectSeq(learning_history,
              LAMBDA e : << e.experience_type, e.action_taken >> = pair)

\* C33: as claimed, every knowledge entry holds at most the 20 most recent
\* experience IDs recorded for its (experience_type, action_taken) pair, and
\* its success_rate and confidence are the success fraction and the mean
\* confidence_score over exactly those experiences.
C33_EntryHoldsLastTwenty ==
    \A i \in DOMAIN knowledge_base :
        LET entry == knowledge_base[i].value
            recent == LastN(RecordedFor(knowledge_base[i].key), 20)
            successful == SelectSeq(recent, OutcomeSuccess)
            scores == [j \in DOMAIN recent |-> recent[j].confidence_score]
        IN /\ Len(entry.experiences) <= 20
           /\ entry.experiences = [j \in DOMAIN recent |-> recent[j].experience_id]
           /\ entry.success_rate.num * Len(recent)
                 = Len(successful) * entry.success_rate.den
           /\ entry.confidence.num * Len(recent) * SevUnit
                 = SumSeq(scores) * entry.confidence.den


\* ------------------------------------------------------ recurring failures

MaxCallsPatterns == 104
FirstFailures == 3
PatternGaps == {1800, 3600}

\* Three CPU_OVERLOAD failures half an hour or an hour apart, then failures
\* of another type at one instant until the first ones leave the window, then
\* CPU_OVERLOAD failures again.
HandlePatterns ==
    LET before == IF failure_history = << >> THEN 0
                  ELSE failure_history[Len(failure_history)].timestamp
        filling == /\ calls.handle_failure >= FirstFailures
                   /\ calls.handle_failure < PatternWindow + 1
    IN /\ calls.handle_failure < MaxCallsPatterns
       /\ \E gap \in PatternGaps :
             HandleFailure(IF filling THEN EventAt("DISK_FULL", 50, before)
                           ELSE EventAt("CPU_OVERLOAD", 90, before + gap),
                           EpsUnit - 1, 1, 0, 0, EpsUnit - 1)

NextPatterns == HandlePatterns

SpecPatterns == Init /\ [][NextPatterns]_vars

\* a step that is a handle_failure call which returns
HandleReturns ==
    /\ hf'.op = "handle_failure" /\ hf'.outcome = "returned"
    /\ calls'.handle_failure = calls.handle_failure + 1

Recurring(detected, failure_type) ==
    { i \in DOMAIN detected : /\ detected[i].type = "recurring_failure"
                              /\ detected[i].failure_type = failure_type }

\* C34: the patterns a handle_failure call returns hold a recurring_failure
\* pattern for the event's failure type exactly when the type occurs at least
\* 3 times among the 100 most recent failures, the current one included, and
\* the mean time from one of those occurrences to the next is under 1 hour;
\* the frequency of the pattern is that number of occurrences.
C34_RecurringFailureDetected ==
    [][HandleReturns =>
          LET failure_type == hf'.failure_event.failure_type
              last == Len(failure_history')
              window == { i \in 1..last : i > last - 100 }
              occurrences == { i \in window :
                                 failure_history'[i].failure_type = failure_type }
              n == Cardinality(occurrences)
              first == CHOOSE i \in occurrences : \A j \in occurrences : i <= j
              latest == CHOOSE i \in occurrences : \A j \in occurrences : i >= j
              span == failure_history'[latest].timestamp - failure_history'[first].timestamp
              found == Recurring(hf'.patterns_detected, failure_type)
          IN /\ found # {} <=> n >= 3 /\ span < 3600 * (n - 1)
             /\ \A i \in found : hf'.patterns_detected[i].frequency = n]_vars

\* a CPU_OVERLOAD pattern of three occurrences while the history holds six
C34_Witness ==
    /\ hf.op = "handle_failure"
    /\ Len(failure_history) > PatternWindow
    /\ \E i \in Recurring(hf.patterns_detected, "CPU_OVERLOAD") :
          hf.patterns_detected[i].frequency = 3


\* ------------------------------------------------- the writers of the table

MaxCallsTable == 2
MaxDecaysTable == 1

\* Failures with a severity inside [0, 1] and below it, handled to the end or
\* with a raising executor, next to every other operation of the
\* orchestrator: reports, direct choices, epsilon decay before the first
\* failure, strategy updates, save_state after the first failure and
\* load_state.
TableEvents == { Event("CPU_OVERLOAD", sev) : sev \in {-40, 90} }

HandleTable ==
    /\ calls.handle_failure < MaxCallsTable
    /\ \E e \in TableEvents, draw \in Draws :
          HandleFailure(e, draw, 1, 0, 0, EpsUnit - 1)

HandleRaisesTable ==
    /\ calls.handle_failure < MaxCallsTable
    /\ HandleFailureExecutorRaises(Event("CPU_OVERLOAD", 90), 0, 1)

ChooseTable ==
    ChooseAction(encode_state(Event("CPU_OVERLOAD", 90)), EpsUnit - 1, 1)

SaveTable ==
    /\ calls.handle_failure = 1
    /\ SaveSnapshot

UpdateTable ==
    /\ probe.op # "_update_strategies"
    /\ UpdateStrategies

DecayTable ==
    /\ calls.handle_failure = 0
    /\ epsilon > Epsilon0 - MaxDecaysTable
    /\ DecayEpsilon(EpsilonDecayNum)

NextTable ==
    HandleTable \/ HandleRaisesTable \/ GetSystemHealthReport \/ ChooseTable
        \/ DecayTable \/ UpdateTable \/ SaveTable \/ Load

SpecTable == Init /\ [][NextTable]_vars

\* a step that is a load_state call: every other call leaves its own name in
\* probe or, for handle_failure, counts itself in calls
LoadReturns == probe'.op = "load_state" /\ calls' = calls

\* C35: a handle_failure call that returns changes the Q-table in one cell
\* only, the one at the state of the event and the index of the action of the
\* response, by Q += 0.1 x (reward + 0.9 x max_a Q[state][a] - Q), and adds 1
\* to the visit count of that cell and to no other; the table and the counts
\* change in no step other than such a call and load_state.
C35_OneCellByTDRule ==
    [][/\ HandleReturns =>
             LET s == Wrap(encode_state(hf'.failure_event), n_states)
                 a == IndexOf(HealingAction, hf'.response.action)
                 target == hf'.reward + TruncDiv(9 * RowMax(q_table[s]), 10)
             IN /\ q_table' = [q_table EXCEPT
                                  ![s][a] = @ + TruncDiv(target - @, 10)]
                /\ state_action_counts' = [state_action_counts EXCEPT ![s][a] = @ + 1]
       /\ (q_table' # q_table \/ state_action_counts' # state_action_counts)
             => HandleReturns \/ LoadReturns]_vars

\* the second update of one cell, of a state below 0 that numpy counts from
\* the end of the table
C35_Witness ==
    /\ hf.op = "handle_failure" /\ hf.outcome = "returned"
    /\ hf.q_before # 0
    /\ hf.q_after # hf.q_before
    /\ state_action_counts[Wrap(hf.state, n_states)][hf.action] = 2
    /\ hf.state < 0


\* ------------------------------------------------- the generated response

FracEq(x, y) == x.num * y.den = y.num * x.den

\* C36: as claimed, every response generated has estimated_duration > 0, a
\* success_probability in [0, 1] and resource_cost >= 0, a SCALE_UP response
\* has scale_factor = min(3.0, 1.5 x (1 + severity)) and a THROTTLE_REQUESTS
\* response has throttle_rate = max(0.1, 0.5 x (1 - severity x 0.5)).
C36_ResponseWithinBounds ==
    (Handled /\ "response" \in DOMAIN hf) =>
        LET response == hf.response
            severity == hf.failure_event.severity
            scaled == Frac(3 * (SevUnit + severity), 2 * SevUnit)
            throttled == Frac(2 * SevUnit - severity, 4 * SevUnit)
        IN /\ response.estimated_duration > 0
           /\ response.success_probability.num >= 0
           /\ response.success_probability.num <= response.success_probability.den
           /\ response.resource_cost >= 0
           /\ response.action = "SCALE_UP" =>
                 FracEq(response.parameters["scale_factor"],
                        IF FracGE(scaled, Frac(3, 1)) THEN Frac(3, 1) ELSE scaled)
           /\ response.action = "THROTTLE_REQUESTS" =>
                 FracEq(response.parameters["throttle_rate"],
                        IF FracGE(Frac(1, 10), throttled) THEN Frac(1, 10) ELSE throttled)


\* ------------------------------------------------ past the cold-start phase

MaxCallsShortlist == 13

\* The calls of HandleStrategies: CLEAR_CACHE, outside the shortlist, and
\* SCALE_UP drawn during the cold start, THROTTLE_REQUESTS after it; from the
\* end of the cold start on the failure may be of the type without a
\* shortlist, and the shortlists are updated at any time.
HandleShortlist ==
    /\ calls.handle_failure < MaxCallsShortlist
    /\ \E failure_type \in {"CPU_OVERLOAD", "UNKNOWN"} :
          /\ failure_type = "UNKNOWN" => calls.handle_failure >= ColdStartFailures
          /\ HandleFailure(Event(failure_type, 90), 0,
                           ScheduledAction(calls.handle_failure + 1), 0, 0, EpsUnit - 1)

NextShortlist == HandleShortlist \/ UpdateStrategies

SpecShortlist == Init /\ [][NextShortlist]_vars

\* the shortlist of a failure type as it stands
ShortlistOf(failure_type) ==
    IF failure_type \in DOMAIN healing_strategies
    THEN SeqToSet(healing_strategies[failure_type]) ELSE {"NO_ACTION"}

\* C38: in a handle_failure call made when the failure history holds 10
\* failures or more, the action of the response is in the shortlist the
\* failure type has at that call (NO_ACTION for a type without one), and no
\* action outside that shortlist gets an attempt counted.
C38_ActionFromShortlist ==
    [][HandleReturns /\ hf'.history_len >= 10 =>
          LET failure_type == hf'.failure_event.failure_type
          IN /\ hf'.response.action \in ShortlistOf(failure_type)
             /\ \A a \in HealingActions \ ShortlistOf(failure_type) :
                   Get(healing_success_rates', << failure_type, a >>, ZeroRate).attempts
                      = Get(healing_success_rates, << failure_type, a >>, ZeroRate).attempts
      ]_vars

\* past the cold start, a suggestion outside the updated shortlist was
\* replaced by a shortlisted action
C38_Witness ==
    /\ hf.op = "handle_failure" /\ hf.outcome = "returned"
    /\ hf.history_len > 10
    /\ hf.failure_event.failure_type = "CPU_OVERLOAD"
    /\ hf.suggested_action = "THROTTLE_REQUESTS"
    /\ hf.response.action # hf.suggested_action
    /\ "THROTTLE_REQUESTS" \notin SeqToSet(hf.fallback_actions)


\* ------------------------------------------------------ the size of Q-values

MaxCallsBound == 310
FreeCallsBound == 2

\* A failure of severity 3.0, whose reward is clipped at 2, handled with
\* success again and again by the action the agent exploits, so that its
\* Q-value climbs towards 2 / (1 - 0.9); in the last calls any draw, and a
\* failure of severity -2.0, whose reward is clipped at -2 when the action
\* fails.
BoundEvents == { Event("CPU_OVERLOAD", sev) : sev \in {-200, 300} }

HandleBound ==
    /\ calls.handle_failure < MaxCallsBound
    /\ IF calls.handle_failure < MaxCallsBound - FreeCallsBound
       THEN HandleFailure(Event("CPU_OVERLOAD", 300), EpsUnit - 1, 1, 0, SevUnit,
                          EpsUnit - 1)
       ELSE \E e \in BoundEvents, draw \in Draws, sd \in Draws :
               HandleFailure(e, draw, 1, sd, SevUnit, EpsUnit - 1)

NextBound == HandleBound

SpecBound == Init /\ [][NextBound]_vars

\* C39: every Q-value stays within [-20, 20], that is within 2 / (1 - 0.9) in
\* absolute value, after any sequence of handle_failure calls on an all-zero
\* table.
C39_QValuesWithinTwenty ==
    \A s \in DOMAIN q_table : \A a \in DOMAIN q_table[s] :
        /\ q_table[s][a] <= 20 * Scale
        /\ q_table[s][a] >= -(20 * Scale)

\* a Q-value above 19 after rewards of 2, and one below 0 after a reward of -2
C39_Witness ==
    /\ \E s \in DOMAIN q_table : \E a \in DOMAIN q_table[s] : q_table[s][a] >= 19 * Scale
    /\ \E s \in DOMAIN q_table : \E a \in DOMAIN q_table[s] : q_table[s][a] < 0
    /\ hf.op = "handle_failure" /\ hf.reward = -(2 * Scale)


\* ------------------------------------------------------------------- C37

\* the threads of one background loop of one object that have not ended
Alive(owner, target) ==
    { i \in DOMAIN loops.threads : /\ loops.threads[i].owner = owner
                                   /\ loops.threads[i].target = target
                                   /\ loops.threads[i].at # "done" }

\* C37: as claimed, across any start and stop calls on one orchestrator or
\* learning system at most one thread of each background loop is alive at a
\* time.
C37_OneLoopAlive ==
    \A i \in DOMAIN loops.threads :
        Cardinality(Alive(loops.threads[i].owner, loops.threads[i].target)) <= 1


\* ------------------------------------------------------------- SpecQueue
\* the healing queue of the composed system: make_intelligent_decisions
\* queues events and the coordination loop, which runs as long as the system
\* does, takes them one pass at a time; a pass returns or raises

MaxQueued == 3

DetectQueue ==
    /\ calls.handle_failure + Len(healing_queue) < MaxQueued
    /\ \E e \in LoopEvents : Enqueue(e)

PassQueue == \E sd \in Draws : HealingLoopPass(0, 8, sd, 0, EpsUnit - 1, TRUE)

PassRaisesQueue == HealingLoopPassRaises(0, 8)

NextQueue == DetectQueue \/ PassQueue \/ PassRaisesQueue

\* the loop thread keeps making passes while the system runs
SpecQueue == InitStore /\ [][NextQueue]_vars /\ WF_vars(PassQueue \/ PassRaisesQueue)

\* a step of the coordination loop that takes an event from the queue
Taken == Len(healing_queue') < Len(healing_queue)

\* C40: every event put on the healing queue is taken by the coordination
\* loop once and in FIFO order, and the pass that takes it adds exactly one
\* healing_history entry for it, also when handling the event raises
C40_TakenEventYieldsEntry ==
    [][Taken =>
          /\ healing_queue' = Tail(healing_queue)
          /\ Len(ml_healing_history') = Len(ml_healing_history) + 1
          /\ ml_healing_history'[Len(ml_healing_history')].failure_event
                = Head(healing_queue)]_vars

====
